---- MODULE Spec2Model ----
(***************************************************************************)
(* Crop-scan flow of farm-assist-grow: the POST /api/analyze-crop handler  *)
(* (server.js), the client requester and the result validator              *)
(* (openai_vision_api.ts), the scan view (Scan.tsx) and the reference      *)
(* disease collection with its seeding paths (disease_fallback, seed       *)
(* script).                                                                *)
(***************************************************************************)
EXTENDS Integers, Sequences, FiniteSets, TLC

(***************************************************************************)
(* JavaScript / JSON values.  Every value is a record of the same shape so *)
(* that values of different JavaScript types compare unequal.              *)
(*   t = "string" (s), "number" (n), "array" (a), "null", "undefined"      *)
(*   t = "absent" marks a property that the object does not have.          *)
(***************************************************************************)
Str(s) == [t |-> "string", s |-> s, n |-> 0, a |-> <<>>]
Num(n) == [t |-> "number", s |-> "", n |-> n, a |-> <<>>]
Arr(a) == [t |-> "array", s |-> "", n |-> 0, a |-> a]
NullVal == [t |-> "null", s |-> "", n |-> 0, a |-> <<>>]
Undefined == [t |-> "undefined", s |-> "", n |-> 0, a |-> <<>>]
Absent == [t |-> "absent", s |-> "", n |-> 0, a |-> <<>>]

\* the seven fields of an analysis result, in the validator's order
requiredFields ==
  <<"diseaseName", "confidence", "cropType", "severity", "symptoms",
    "treatment", "prevention">>

FieldNames == {requiredFields[i] : i \in 1..Len(requiredFields)}

NoFields == [f \in FieldNames |-> Absent]

\* A parsed JSON document: k = "object" (o holds its properties), "null",
\* "falsy" (0, false, "") or "truthy" (any other primitive).
Obj(o) == [k |-> "object", o |-> o]
JsNull == [k |-> "null", o |-> NoFields]
JsFalsy == [k |-> "falsy", o |-> NoFields]
JsTruthy == [k |-> "truthy", o |-> NoFields]

\* JavaScript truthiness of a parsed document
Truthy(j) == j.k \in {"object", "truthy"}

\* `field in result`
HasField(o, f) == o[f].t # "absent"

MaxConfidence == 100

SeverityLevels == {"Mild", "Moderate", "Severe"}

\* JavaScript null returned by the validator on acceptance
NoError == "null"

\* first required field that the object lacks (0 when none is missing)
RECURSIVE FirstMissing(_, _)
FirstMissing(o, i) ==
  IF i > Len(requiredFields) THEN 0
  ELSE IF ~HasField(o, requiredFields[i]) THEN i
  ELSE FirstMissing(o, i + 1)

\* a variant whose confidence comparison excludes both ends of the range
validateAnalysisResult_offByOne(result) ==
  IF ~Truthy(result) \/ result.k # "object" THEN "Result is not an object"
  ELSE IF FirstMissing(result.o, 1) # 0
    THEN "Missing required field: " \o requiredFields[FirstMissing(result.o, 1)]
  ELSE IF result.o.diseaseName.t # "string" THEN "diseaseName must be a string"
  ELSE IF result.o.confidence.t # "number" \/ result.o.confidence.n <= 0
          \/ result.o.confidence.n >= MaxConfidence
    THEN "confidence must be a number between 0 and 100"
  ELSE IF result.o.cropType.t # "string" THEN "cropType must be a string"
  ELSE IF ~(result.o.severity.t = "string" /\ result.o.severity.s \in SeverityLevels)
    THEN "severity must be \"Mild\", \"Moderate\", or \"Severe\""
  ELSE IF result.o.symptoms.t # "array" \/ Len(result.o.symptoms.a) = 0
    THEN "symptoms must be a non-empty array"
  ELSE IF result.o.treatment.t # "string" \/ Len(result.o.treatment.s) = 0
    THEN "treatment must be a non-empty string"
  ELSE IF result.o.prevention.t # "array" \/ Len(result.o.prevention.a) = 0
    THEN "prevention must be a non-empty array"
  ELSE NoError

\* a variant that checks each field's presence right before its type
validateAnalysisResult_fieldByField(result) ==
  IF ~Truthy(result) \/ result.k # "object" THEN "Result is not an object"
  ELSE IF ~HasField(result.o, "diseaseName")
    THEN "Missing required field: diseaseName"
  ELSE IF result.o.diseaseName.t # "string" THEN "diseaseName must be a string"
  ELSE IF ~HasField(result.o, "confidence")
    THEN "Missing required field: confidence"
  ELSE IF result.o.confidence.t # "number" \/ result.o.confidence.n < 0
          \/ result.o.confidence.n > MaxConfidence
    THEN "confidence must be a number between 0 and 100"
  ELSE IF ~HasField(result.o, "cropType")
    THEN "Missing required field: cropType"
  ELSE IF result.o.cropType.t # "string" THEN "cropType must be a string"
  ELSE IF ~HasField(result.o, "severity")
    THEN "Missing required field: severity"
  ELSE IF ~(result.o.severity.t = "string" /\ result.o.severity.s \in SeverityLevels)
    THEN "severity must be \"Mild\", \"Moderate\", or \"Severe\""
  ELSE IF ~HasField(result.o, "symptoms")
    THEN "Missing required field: symptoms"
  ELSE IF result.o.symptoms.t # "array" \/ Len(result.o.symptoms.a) = 0
    THEN "symptoms must be a non-empty array"
  ELSE IF ~HasField(result.o, "treatment")
    THEN "Missing required field: treatment"
  ELSE IF result.o.treatment.t # "string" \/ Len(result.o.treatment.s) = 0
    THEN "treatment must be a non-empty string"
  ELSE IF ~HasField(result.o, "prevention")
    THEN "Missing required field: prevention"
  ELSE IF result.o.prevention.t # "array" \/ Len(result.o.prevention.a) = 0
    THEN "prevention must be a non-empty array"
  ELSE NoError

\* validateAnalysisResult of openai_vision_api.ts: the first failing check
\* gives the message
validateAnalysisResult(result) ==
  IF ~Truthy(result) \/ result.k # "object" THEN "Result is not an object"
  ELSE IF FirstMissing(result.o, 1) # 0
    THEN "Missing required field: " \o requiredFields[FirstMissing(result.o, 1)]
  ELSE IF result.o.diseaseName.t # "string" THEN "diseaseName must be a string"
  ELSE IF result.o.confidence.t # "number" \/ result.o.confidence.n < 0
          \/ result.o.confidence.n > MaxConfidence
    THEN "confidence must be a number between 0 and 100"
  ELSE IF result.o.cropType.t # "string" THEN "cropType must be a string"
  ELSE IF ~(result.o.severity.t = "string" /\ result.o.severity.s \in SeverityLevels)
    THEN "severity must be \"Mild\", \"Moderate\", or \"Severe\""
  ELSE IF result.o.symptoms.t # "array" \/ Len(result.o.symptoms.a) = 0
    THEN "symptoms must be a non-empty array"
  ELSE IF result.o.treatment.t # "string" \/ Len(result.o.treatment.s) = 0
    THEN "treatment must be a non-empty string"
  ELSE IF result.o.prevention.t # "array" \/ Len(result.o.prevention.a) = 0
    THEN "prevention must be a non-empty array"
  ELSE NoError

(***************************************************************************)
(* POST /api/analyze-crop (server.js) and the client requester.            *)
(***************************************************************************)
StartsWith(s, prefix) ==
  Len(s) >= Len(prefix) /\ SubSeq(s, 1, Len(prefix)) = prefix

\* An HTTP response of the local endpoint: a status and a body that is
\* either JSON (error/details of an error body, json of a result body) or
\* not JSON at all (bodyIsJson = FALSE).
ErrorBody(status, error, details) ==
  [status |-> status, bodyIsJson |-> TRUE, error |-> error,
   details |-> details, json |-> JsNull]

ResultBody(status, json) ==
  [status |-> status, bodyIsJson |-> TRUE, error |-> "", details |-> "",
   json |-> json]

\* What the inference service does with one request:
\*   kind "networkError"  fetch rejects
\*   kind "httpError"     non-success status, message = error.message
\*   kind "badBody"       success status, body is not JSON
\*   kind "ok"            success status, content = choices[0].message.content
\* A content is c = "none" (missing or empty), "malformed" (not JSON text)
\* or "json" (JSON text of the document v).
Upstream(kind, status, message, content) ==
  [kind |-> kind, status |-> status, message |-> message, content |-> content]

NoContent == [c |-> "none", v |-> JsNull]
Malformed == [c |-> "malformed", v |-> JsNull]
JsonText(v) == [c |-> "json", v |-> v]

\* the handler of app.post('/api/analyze-crop'); apiKey = "" when
\* OPENAI_API_KEY is not set
analyzeCropHandler(imageBase64, apiKey, upstream) ==
  IF Len(imageBase64) = 0 THEN ErrorBody(400, "Image data is required", "")
  ELSE IF ~StartsWith(imageBase64, "data:image/")
    THEN ErrorBody(400, "Invalid image format. Must be a base64 data URL.", "")
  ELSE IF Len(apiKey) = 0
    THEN ErrorBody(500, "Server configuration error. Please contact support.", "")
  ELSE IF upstream.kind = "networkError"
    THEN ErrorBody(500, "Internal server error", "fetch failed")
  ELSE IF upstream.kind = "httpError"
    THEN ErrorBody(500,
           "OpenAI API request failed with status " \o ToString(upstream.status),
           IF Len(upstream.message) > 0 THEN upstream.message ELSE "{}")
  ELSE IF upstream.kind = "badBody"
    THEN ErrorBody(500, "Internal server error", "Unexpected token")
  ELSE IF upstream.content.c = "none"
    THEN ErrorBody(500, "No content in API response", "{\"choices\":[]}")
  ELSE IF upstream.content.c = "malformed"
    THEN ErrorBody(500, "Failed to parse API response", "not json")
  \* result.diseaseName of a parsed null throws inside the outer try
  ELSE IF upstream.content.v.k = "null"
    THEN ErrorBody(500, "Internal server error", "Cannot read properties of null")
  ELSE ResultBody(200, upstream.content.v)

\* What fetch('/api/analyze-crop') meets: reach = "networkError" (fetch
\* rejects), "tooLarge" (express.json refuses a body over its limit with a
\* non-JSON 413 page) or "handler" (the route handler answers).
LocalEndpoint(imageBase64, env) ==
  IF env.reach = "tooLarge"
    THEN [status |-> 413, bodyIsJson |-> FALSE, error |-> "", details |-> "",
          json |-> JsNull]
    ELSE analyzeCropHandler(imageBase64, env.apiKey, env.upstream)

Failure(error, details) ==
  [success |-> FALSE, data |-> JsNull, error |-> error, details |-> details]

Success(data) ==
  [success |-> TRUE, data |-> data, error |-> "", details |-> ""]

\* a variant that reports every failed request with its own message
readResponse_ownMessage(response) ==
  LET ok == response.status >= 200 /\ response.status <= 299
      fallbackMessage ==
        "API request failed with status " \o ToString(response.status)
  IN IF ~ok THEN Failure(fallbackMessage, "errorText")
     ELSE IF ~response.bodyIsJson
       THEN Failure("Network error", "Unexpected token")
     ELSE Success(response.json)

\* analyzeCropImage after its fetch resolved with this response
readResponse(response) ==
  LET ok == response.status >= 200 /\ response.status <= 299
      fallbackMessage ==
        "API request failed with status " \o ToString(response.status)
  IN IF ~ok
       THEN IF response.bodyIsJson
              THEN Failure(
                     IF Len(response.error) > 0 THEN response.error
                                                ELSE fallbackMessage,
                     IF Len(response.details) > 0 THEN response.details
                                                  ELSE "errorText")
              ELSE Failure(fallbackMessage, "errorText")
     ELSE IF ~response.bodyIsJson
       THEN Failure("Network error", "Unexpected token")
     ELSE Success(response.json)

\* analyzeCropImage of openai_vision_api.ts
analyzeCropImage(imageBase64, env) ==
  IF Len(imageBase64) = 0 THEN Failure("Image data is required", "")
  ELSE IF env.reach = "networkError" THEN Failure("Network error", "Failed to fetch")
  ELSE readResponse(LocalEndpoint(imageBase64, env))

(***************************************************************************)
(* Strings: the identifier of a seeded document is derived from its name.  *)
(***************************************************************************)
UpperChars == "ABCDEFGHIJKLMNOPQRSTUVWXYZ"
LowerChars == "abcdefghijklmnopqrstuvwxyz"
\* the characters of document identifiers in code-unit order
AsciiOrder == " -0123456789_abcdefghijklmnopqrstuvwxyz"

CharAt(s, i) == SubSeq(s, i, i)

RECURSIVE IndexOf(_, _, _)
IndexOf(c, s, i) ==
  IF i > Len(s) THEN 0
  ELSE IF CharAt(s, i) = c THEN i
  ELSE IndexOf(c, s, i + 1)

RECURSIVE toLowerCase(_)
toLowerCase(s) ==
  IF Len(s) = 0 THEN ""
  ELSE LET c == CharAt(s, 1)
           i == IndexOf(c, UpperChars, 1)
       IN (IF i = 0 THEN c ELSE CharAt(LowerChars, i))
            \o toLowerCase(SubSeq(s, 2, Len(s)))

IsSpace(c) == c \in {" ", "\t", "\n", "\r"}

\* s.replace(/\s+/g, sep): every maximal run of whitespace becomes one sep
RECURSIVE replaceSpaces(_, _, _)
replaceSpaces(s, sep, inRun) ==
  IF Len(s) = 0 THEN ""
  ELSE LET c == CharAt(s, 1)
           rest == SubSeq(s, 2, Len(s))
       IN IF IsSpace(c)
            THEN (IF inRun THEN "" ELSE sep) \o replaceSpaces(rest, sep, TRUE)
            ELSE c \o replaceSpaces(rest, sep, FALSE)

\* lexicographic order of two identifiers (Firestore orders a collection
\* read by document id)
RECURSIVE IdLess(_, _)
IdLess(x, y) ==
  IF Len(y) = 0 THEN FALSE
  ELSE IF Len(x) = 0 THEN TRUE
  ELSE LET cx == IndexOf(CharAt(x, 1), AsciiOrder, 1)
           cy == IndexOf(CharAt(y, 1), AsciiOrder, 1)
       IN IF cx # cy THEN cx < cy
          ELSE IdLess(SubSeq(x, 2, Len(x)), SubSeq(y, 2, Len(y)))

(***************************************************************************)
(* The diseases reference collection and its two seeding paths.           *)
(***************************************************************************)
DocFields ==
  {"id", "name", "symptoms", "treatment", "prevention", "severity",
   "commonCrops", "category", "description", "preventiveMeasures",
   "treatments", "affectedCrops", "seasonality"}

EmptyDoc == [f \in DocFields |-> Absent]

\* an entry of COMMON_DISEASES (Omit<DiseaseData, "id">)
Disease(name, symptoms, treatment, prevention, severity, commonCrops) ==
  [EmptyDoc EXCEPT !["name"] = Str(name), !["symptoms"] = Arr(symptoms),
                   !["treatment"] = Str(treatment),
                   !["prevention"] = Arr(prevention),
                   !["severity"] = Str(severity),
                   !["commonCrops"] = Arr(commonCrops)]

COMMON_DISEASES ==
  << Disease("Early Blight",
       <<"Dark concentric rings on leaves", "Yellowing of lower leaves",
         "Steam lesions">>,
       "Apply fungicides containing copper or chlorothalonil. Improve air circulation.",
       <<"Crop rotation", "Mulching", "Drip irrigation to keep foliage dry">>,
       "Moderate", <<"Tomato", "Potato">>),
     Disease("Late Blight",
       <<"Water-soaked spots on leaves", "White fungal growth on undersides",
         "Rapid browning of tissue">>,
       "Apply systemic fungicides immediately. Remove infected plants.",
       <<"Use resistant varieties", "Avoid overhead irrigation", "Proper spacing">>,
       "Severe", <<"Tomato", "Potato">>),
     Disease("Powdery Mildew",
       <<"White powdery spots on leaves/stems", "Distorted leaf growth",
         "Premature leaf drop">>,
       "Neem oil or sulfur-based fungicides. Milk-water solution spray.",
       <<"Resistant varieties", "Full sun exposure", "Good air circulation">>,
       "Mild", <<"Cucumber", "Squash", "Melon">>),
     Disease("Leaf Rust",
       <<"Orange/brown pustules on leaf undersides",
         "Yellowing on upper leaf surface", "Stunted growth">>,
       "Fungicides with propiconazole. Remove infected debris.",
       <<"Resistant cultivars", "Remove volunteer plants", "Balanced fertilization">>,
       "Moderate", <<"Maize", "Wheat", "Beans">>),
     Disease("Bacterial Wilt",
       <<"Sudden wilting during day", "Recovery at night initially",
         "Brown discoloration in stem">>,
       "Remove and destroy infected plants immediately. No chemical cure.",
       <<"Crop rotation (non-solanaceous)", "Control nematodes", "Clean tools">>,
       "Severe", <<"Tomato", "Pepper", "Eggplant">>) >>

NumCommon == Len(COMMON_DISEASES)

\* a variant that does not lower-case the name
seedDocId_keepCase(name) == replaceSpaces(name, "-", FALSE)

\* disease.name.toLowerCase().replace(/\s+/g, '-') in seedDiseases
seedDocId(name) == replaceSpaces(toLowerCase(name), "-", FALSE)

\* pest.toLowerCase().replace(/\s+/g, '_') in seedProductsAndDiseases
adminDocId(pest) == replaceSpaces(toLowerCase(pest), "_", FALSE)

\* A collection is a function from the identifiers of its documents to
\* their data.
EmptyCollection == [id \in {} |-> EmptyDoc]

\* setDoc(doc(db, collection, id), data): create or overwrite
setDoc(coll, id, data) ==
  [x \in (DOMAIN coll) \cup {id} |-> IF x = id THEN data ELSE coll[x]]

\* the identifiers of a collection in the order a read returns them
RECURSIVE SortedIds(_)
SortedIds(ids) ==
  IF ids = {} THEN <<>>
  ELSE LET m == CHOOSE x \in ids : \A y \in ids \ {x} : IdLess(x, y)
       IN <<m>> \o SortedIds(ids \ {m})

\* snapshot.docs.map(d => ({ id: d.id, ...d.data() })) of getAllDiseases
snapshotDocs(coll) ==
  LET ids == SortedIds(DOMAIN coll)
  IN [i \in 1..Len(ids) |->
        IF coll[ids[i]]["id"].t = "absent"
          THEN [coll[ids[i]] EXCEPT !["id"] = Str(ids[i])]
          ELSE coll[ids[i]]]

\* the rows of the products CSV that the seed script reads: product
\* category, target pests and crops
Row(category, targetPests, crops) ==
  [category |-> category, targetPests |-> targetPests, crops |-> crops]

CsvRows ==
  << Row("Fungicide", <<"Early Blight", "Late Blight">>, <<"Tomato", "Potato">>),
     Row("Insecticide", <<"Aphids">>, <<"Kale", "Tomato">>) >>

\* append the members of seq b that seq a lacks
RECURSIVE pushMissing(_, _)
pushMissing(a, b) ==
  IF b = <<>> THEN a
  ELSE pushMissing(
         IF \E i \in 1..Len(a) : a[i] = Head(b) THEN a ELSE Append(a, Head(b)),
         Tail(b))

\* the Disease record the seed script creates for a pest on first sight
adminDisease(pest, category) ==
  [EmptyDoc EXCEPT
     !["id"] = Str(adminDocId(pest)),
     !["name"] = Str(pest),
     !["category"] = Str(IF category = "Fungicide" THEN "Fungal Disease"
                         ELSE IF category = "Herbicide" THEN "Weed" ELSE "Pest"),
     !["description"] =
        Str(pest \o " - A common agricultural problem affecting various crops."),
     !["symptoms"] = Arr(<<>>),
     !["preventiveMeasures"] = Arr(<<>>),
     !["treatments"] = Arr(<<>>),
     !["affectedCrops"] = Arr(<<>>),
     !["severity"] = Str("Medium"),
     !["seasonality"] = Str("Year-round")]

\* products.forEach(product => product.targetPests.forEach(pest => ...)):
\* acc maps each pest seen so far to its Disease record
RECURSIVE collectPests(_, _, _)
collectPests(acc, row, pests) ==
  IF pests = <<>> THEN acc
  ELSE LET pest == Head(pests)
           cur == IF pest \in DOMAIN acc THEN acc[pest]
                  ELSE adminDisease(pest, row.category)
           upd == [cur EXCEPT !["affectedCrops"] =
                     Arr(pushMissing(cur["affectedCrops"].a, row.crops))]
       IN collectPests(
            [x \in (DOMAIN acc) \cup {pest} |-> IF x = pest THEN upd ELSE acc[x]],
            row, Tail(pests))

RECURSIVE collectDiseases(_, _)
collectDiseases(acc, rows) ==
  IF rows = <<>> THEN acc
  ELSE collectDiseases(collectPests(acc, Head(rows), Head(rows).targetPests),
                       Tail(rows))

\* the diseases batch of seedProductsAndDiseases applied to a collection
RECURSIVE commitDiseases(_, _, _)
commitDiseases(coll, byPest, pests) ==
  IF pests = {} THEN coll
  ELSE LET p == CHOOSE x \in pests : TRUE
       IN commitDiseases(setDoc(coll, byPest[p]["id"].s, byPest[p]),
                         byPest, pests \ {p})

adminDiseases == collectDiseases([x \in {} |-> EmptyDoc], CsvRows)

\* disease.<f> in selectFallbackDisease: a property the document lacks
\* reads as undefined
Prop(d, f) == IF d[f].t = "absent" THEN Undefined ELSE d[f]

\* a variant that reports the candidate's crops as the crop type
manualResult_keepCrop(disease) ==
  Obj([diseaseName |-> Prop(disease, "name"),
       confidence |-> Num(0),
       cropType |-> Prop(disease, "commonCrops"),
       severity |-> Prop(disease, "severity"),
       symptoms |-> Prop(disease, "symptoms"),
       treatment |-> Prop(disease, "treatment"),
       prevention |-> Prop(disease, "prevention")])

\* the result object that selectFallbackDisease builds
manualResult(disease) ==
  Obj([diseaseName |-> Prop(disease, "name"),
       confidence |-> Num(0),
       cropType |-> Str("Manual Selection"),
       severity |-> Prop(disease, "severity"),
       symptoms |-> Prop(disease, "symptoms"),
       treatment |-> Prop(disease, "treatment"),
       prevention |-> Prop(disease, "prevention")])

(***************************************************************************)
(* Image intake (image upload utility).  Pixel arithmetic is done on       *)
(* JavaScript numbers: the division of the ratio and each product round to *)
(* the nearest double before Math.floor is taken.  The operators below     *)
(* compute that rounding with integers.                                    *)
(***************************************************************************)
\* bits in the significand of a double
SignificandBits == 53

RECURSIVE ExpUp(_, _, _)
ExpUp(m, d, a) == IF d * 2^(a + 1) <= m THEN ExpUp(m, d, a + 1) ELSE a

RECURSIVE ExpDown(_, _, _)
ExpDown(m, d, k) == IF m * 2^k < d THEN ExpDown(m, d, k + 1) ELSE k

\* the binary exponent of m / d: the a with 2^a <= m / d < 2^(a + 1)
BinaryExponent(m, d) ==
  IF m >= d THEN ExpUp(m, d, 0) ELSE 0 - ExpDown(m, d, 1)

\* (r * 2^k) modulo d
RECURSIVE ShiftMod(_, _, _)
ShiftMod(r, k, d) ==
  IF k = 0 THEN r % d ELSE ShiftMod((2 * r) % d, k - 1, d)

\* The double nearest to m / d is (m + s * 2^(a + 1 - SignificandBits)) / d
\* where a is the binary exponent of m / d and s this rounding error (ties
\* go to the even significand).
RoundingError(m, d) ==
  LET k == SignificandBits - 1 - BinaryExponent(m, d)
      rem == ShiftMod(m % d, k, d)
      odd == ShiftMod(m % (2 * d), k, 2 * d) >= d
  IN IF 2 * rem < d THEN 0 - rem
     ELSE IF 2 * rem > d THEN d - rem
     ELSE IF odd THEN d - rem ELSE 0 - rem

\* Math.floor(x * ratio) for ratio = m / d, all in double arithmetic: the
\* exact quotient unless x * m / d is an integer n and the ratio was rounded
\* down by more than half the gap between n and the double below it
FloorOfProduct(x, m, d) ==
  LET s == RoundingError(m, d)
      n == (x * m) \div d
      a == BinaryExponent(m, d)
      b == BinaryExponent(n, 1)
      gap == IF 2^b = n THEN 4 ELSE 2
  IN IF (x * m) % d # 0 \/ s >= 0 THEN n
     ELSE IF gap * x * (0 - s) <= d * 2^(b - a) THEN n
     ELSE n - 1

\* the dimensions loadAndResizeImage gives the canvas
resizedDimensions(width, height, options) ==
  IF width > options.maxWidth \/ height > options.maxHeight
    THEN LET byWidth == options.maxWidth * height <= options.maxHeight * width
             m == IF byWidth THEN options.maxWidth ELSE options.maxHeight
             d == IF byWidth THEN width ELSE height
         IN [width |-> FloorOfProduct(width, m, d),
             height |-> FloorOfProduct(height, m, d)]
    ELSE [width |-> width, height |-> height]

BytesPerMB == 1024 * 1024

DEFAULT_OPTIONS ==
  [maxSizeInMB |-> 10, maxWidth |-> 2048, maxHeight |-> 2048,
   acceptedFormats |-> <<"image/jpeg", "image/jpg", "image/png", "image/webp">>]

\* { ...DEFAULT_OPTIONS, ...options } for options that give both maxima
Options(maxWidth, maxHeight) ==
  [DEFAULT_OPTIONS EXCEPT !.maxWidth = maxWidth, !.maxHeight = maxHeight]

\* A file: its MIME type, its size in bytes, the pixel size of the picture
\* in it and how reading goes: "ok", "unreadable" (FileReader fails),
\* "undecodable" (the image does not load) or "noContext" (no 2d context).
File(type, size, width, height, reading) ==
  [type |-> type, size |-> size, width |-> width, height |-> height,
   reading |-> reading]

RECURSIVE join(_, _)
join(list, sep) ==
  IF Len(list) = 0 THEN ""
  ELSE IF Len(list) = 1 THEN list[1]
  ELSE list[1] \o sep \o join(Tail(list), sep)

TwoDigits(n) == IF n < 10 THEN "0" \o ToString(n) ELSE ToString(n)

\* (size / (1024 * 1024)).toFixed(2)
toFixed2(size) ==
  LET hundredths ==
        (size \div BytesPerMB) * 100
        + ((size % BytesPerMB) * 100 + BytesPerMB \div 2) \div BytesPerMB
  IN ToString(hundredths \div 100) \o "." \o TwoDigits(hundredths % 100)

\* canvas.toDataURL(type, quality): a canvas without pixels gives "data:,",
\* a type the canvas cannot encode gives PNG
toDataURL(type, width, height) ==
  IF width = 0 \/ height = 0 THEN "data:,"
  ELSE "data:" \o (IF type = "image/jpg" THEN "image/png" ELSE type)
       \o ";base64,AAAA"

UploadError(error) ==
  [success |-> FALSE, error |-> error, data |-> "", width |-> 0, height |-> 0]

\* whether processImageUpload gets as far as loadAndResizeImage, which reads
\* and decodes the file: only after both early returns
callsLoadAndResizeImage(file, opts) ==
  /\ \E i \in 1..Len(opts.acceptedFormats) : opts.acceptedFormats[i] = file.type
  /\ ~(file.size > opts.maxSizeInMB * BytesPerMB)

\* processImageUpload with the size check ahead of the type check
processImageUpload_sizeFirst(file, opts) ==
  IF file.size > opts.maxSizeInMB * BytesPerMB
    THEN UploadError("File size (" \o toFixed2(file.size)
                     \o "MB) exceeds maximum allowed size ("
                     \o ToString(opts.maxSizeInMB) \o "MB)")
  ELSE IF \A i \in 1..Len(opts.acceptedFormats) : opts.acceptedFormats[i] # file.type
    THEN UploadError("Invalid file type. Accepted formats: "
                     \o join(opts.acceptedFormats, ", "))
  ELSE IF file.reading = "unreadable"
    THEN UploadError("Failed to process image: Failed to read file")
  ELSE IF file.reading = "undecodable"
    THEN UploadError("Failed to process image: Failed to load image")
  ELSE IF file.reading = "noContext"
    THEN UploadError("Failed to process image: Failed to get canvas context")
  ELSE LET dimensions == resizedDimensions(file.width, file.height, opts)
       IN [success |-> TRUE, error |-> "",
           data |-> toDataURL(file.type, dimensions.width, dimensions.height),
           width |-> dimensions.width, height |-> dimensions.height]

\* processImageUpload: type check, size check, then loadAndResizeImage
processImageUpload(file, opts) ==
  IF \A i \in 1..Len(opts.acceptedFormats) : opts.acceptedFormats[i] # file.type
    THEN UploadError("Invalid file type. Accepted formats: "
                     \o join(opts.acceptedFormats, ", "))
  ELSE IF file.size > opts.maxSizeInMB * BytesPerMB
    THEN UploadError("File size (" \o toFixed2(file.size)
                     \o "MB) exceeds maximum allowed size ("
                     \o ToString(opts.maxSizeInMB) \o "MB)")
  ELSE IF file.reading = "unreadable"
    THEN UploadError("Failed to process image: Failed to read file")
  ELSE IF file.reading = "undecodable"
    THEN UploadError("Failed to process image: Failed to load image")
  ELSE IF file.reading = "noContext"
    THEN UploadError("Failed to process image: Failed to get canvas context")
  ELSE LET dimensions == resizedDimensions(file.width, file.height, opts)
       IN [success |-> TRUE, error |-> "",
           data |-> toDataURL(file.type, dimensions.width, dimensions.height),
           width |-> dimensions.width, height |-> dimensions.height]

(***************************************************************************)
(* Bounds and inputs.                                                      *)
(***************************************************************************)
\* sessions that may run seedDiseases (the scan view is session 1)
NumSessions == 2
\* seedDiseases runs counted per session (the mount effect re-runs when user
\* changes); further runs leave the count as it is
MaxSeedRuns == 2
\* analyze clicks per behaviour
MaxAnalyses == 2

Sessions == 1..NumSessions

\* encoded images that image intake hands to the scan view
Images == {"data:image/jpeg;base64,AAAA"}

ValidFields ==
  [diseaseName |-> Str("Early Blight"), confidence |-> Num(87),
   cropType |-> Str("Tomato"), severity |-> Str("Moderate"),
   symptoms |-> Arr(<<"Dark concentric rings on leaves">>),
   treatment |-> Str("Apply fungicides containing copper."),
   prevention |-> Arr(<<"Crop rotation">>)]

\* documents the inference service may put in its content
ModelOutputs ==
  { Obj(ValidFields),
    Obj([ValidFields EXCEPT !.prevention = Absent]),
    JsNull, JsFalsy }

Upstreams ==
  { Upstream("networkError", 0, "", NoContent),
    Upstream("httpError", 500, "The server had an error", NoContent),
    Upstream("httpError", 401, "", NoContent),
    Upstream("badBody", 200, "", NoContent),
    Upstream("ok", 200, "", NoContent),
    Upstream("ok", 200, "", Malformed) }
  \cup { Upstream("ok", 200, "", JsonText(v)) : v \in ModelOutputs }

Env(reach, apiKey, upstream) ==
  [reach |-> reach, apiKey |-> apiKey, upstream |-> upstream]

\* what one analysis request can meet
Envs ==
  { Env("networkError", "sk-key", Upstream("ok", 200, "", NoContent)),
    Env("tooLarge", "sk-key", Upstream("ok", 200, "", NoContent)),
    Env("handler", "", Upstream("ok", 200, "", NoContent)) }
  \cup { Env("handler", "sk-key", u) : u \in Upstreams }

\* inputs of the validator: every combination of these property values
ValidatorInputs ==
  { Obj([diseaseName |-> dn, confidence |-> cf, cropType |-> ct,
         severity |-> sv, symptoms |-> sy, treatment |-> tr,
         prevention |-> pv]) :
      dn \in {Absent, Str("Early Blight"), Num(7)},
      cf \in {Absent, Str("high"), Num(0 - 1), Num(0), Num(50),
              Num(MaxConfidence), Num(MaxConfidence + 1)},
      ct \in {Absent, Str("Tomato"), NullVal},
      sv \in {Absent, Str("Mild"), Str("Moderate"), Str("Severe"),
              Str("Medium"), Str("mild"), Num(2)},
      sy \in {Absent, Arr(<<>>), Arr(<<"Steam lesions">>), Str("Steam lesions")},
      tr \in {Absent, Str(""), Str("Remove infected plants."), Arr(<<"Remove">>)},
      pv \in {Absent, Arr(<<>>), Arr(<<"Mulching">>), NullVal} }
  \cup {JsNull, JsFalsy, JsTruthy}

\* picture sides: every small side, and sides around the default maximum
MaxSide == 48

Sides == (1..MaxSide) \cup {2048, 2215, 4096}

\* maxima the caller may configure
MaxSides == {1, 3, 12, 2048}

UploadOptions == {Options(mw, mh) : mw \in MaxSides, mh \in MaxSides}

\* files handed to image intake: a readable JPEG of every size in pixels,
\* and one picture in every combination of type, byte size and reading
UploadFiles ==
  { File("image/jpeg", 1024, w, h, "ok") : w \in Sides, h \in Sides }
  \cup { File(type, size, 2215, 1000, reading) :
           type \in {"image/jpeg", "image/jpg", "image/gif"},
           size \in {0, 10 * BytesPerMB, 10 * BytesPerMB + 1, 11 * BytesPerMB},
           reading \in {"ok", "unreadable", "undecodable", "noContext"} }

(***************************************************************************)
(* State.                                                                  *)
(***************************************************************************)
\* Scan.tsx component state ("" is a null selectedImage, JsNull a null result)
VARIABLES selectedImage, isAnalyzing, showFallback, progress, result,
          fallbackDiseases, recommendedProducts, isProductsLoading

\* handleAnalyze in flight: its position, its timer and the image it sent
VARIABLES analyzePc, progressInterval, requestImage

\* loadProducts calls in flight (the disease name each asked for)
VARIABLES productLookups

\* document store
VARIABLES diseases, products

\* seedDiseases runs, per session: position and index of the next write
VARIABLES seedPc, seedIdx

\* the seed script
VARIABLES adminPc

\* history: the response handleAnalyze last received, where the displayed
\* result came from, the candidate it was picked from, the number of analyze
\* clicks, per session the seedDiseases runs finished and whether its run
\* found the collection empty, and whether a store operation failed
VARIABLES lastResponse, resultOrigin, pickedDisease, analyses,
          seedRuns, sawEmpty, storeFailed

\* validator under test
VARIABLES vInput, vOutput

\* one analysis request on its way: position, who sent it ("client" is
\* analyzeCropImage, "direct" any other HTTP client), its image, what it
\* meets, the server's response and the requester's return value; history:
\* fetches issued by analyzeCropImage, fetches issued by the route handler
\* and responses sent by the server
VARIABLES rqPc, rqFrom, rqImage, rqEnv, rqServer, rqClient,
          clientFetches, upstreamFetches, responsesSent

\* product lookup under test
VARIABLES pName, pOutput, pDone

\* image intake under test; history: whether the file's content was read
VARIABLES upFile, upOptions, upResult, upRead

\* the scan_history collection and the signed-in user's uid ("" when nobody
\* is signed in); history: the data URLs image intake has returned
VARIABLES scanHistory, user, intaken

scanVars ==
  <<selectedImage, isAnalyzing, showFallback, progress, result,
    fallbackDiseases, recommendedProducts, isProductsLoading, analyzePc,
    progressInterval, requestImage, productLookups, lastResponse,
    resultOrigin, pickedDisease, analyses>>

storeVars == <<diseases, products>>

seedVars == <<seedPc, seedIdx, seedRuns, sawEmpty, storeFailed>>

validatorVars == <<vInput, vOutput>>

requestVars ==
  <<rqPc, rqFrom, rqImage, rqEnv, rqServer, rqClient, clientFetches,
    upstreamFetches, responsesSent>>

lookupVars == <<pName, pOutput, pDone>>

uploadVars == <<upFile, upOptions, upResult, upRead>>

historyVars == <<scanHistory, user, intaken>>

\* the units that are exercised on their own
unitVars == <<validatorVars, lookupVars, uploadVars, historyVars>>

vars == <<scanVars, storeVars, seedVars, adminPc, requestVars, unitVars>>

\* what handleAnalyze looks at in a response
Outcome(response) == [success |-> response.success, data |-> response.data]

NoResponse == [success |-> FALSE, data |-> JsNull]

InitScan ==
  /\ selectedImage = ""
  /\ isAnalyzing = FALSE
  /\ showFallback = FALSE
  /\ progress = 0
  /\ result = JsNull
  /\ fallbackDiseases = <<>>
  /\ recommendedProducts = <<>>
  /\ isProductsLoading = FALSE
  /\ analyzePc = "idle"
  /\ progressInterval = FALSE
  /\ requestImage = ""
  /\ productLookups = <<>>
  /\ lastResponse = NoResponse
  /\ resultOrigin = "none"
  /\ pickedDisease = EmptyDoc
  /\ analyses = 0

InitStore ==
  /\ diseases = EmptyCollection
  /\ products = [id \in {} |-> Row("", <<>>, <<>>)]

InitSeed ==
  /\ seedPc = [s \in Sessions |-> "idle"]
  /\ seedIdx = [s \in Sessions |-> 1]
  /\ seedRuns = [s \in Sessions |-> 0]
  /\ sawEmpty = [s \in Sessions |-> FALSE]
  /\ storeFailed = FALSE

InitValidator ==
  /\ vInput = JsNull
  /\ vOutput = "pending"

NoServerResponse ==
  [status |-> 0, bodyIsJson |-> FALSE, error |-> "", details |-> "",
   json |-> JsNull]

NoEnv == Env("none", "", Upstream("none", 0, "", NoContent))

InitRequest ==
  /\ rqPc = "idle"
  /\ rqFrom = "none"
  /\ rqImage = ""
  /\ rqEnv = NoEnv
  /\ rqServer = NoServerResponse
  /\ rqClient = Failure("", "")
  /\ clientFetches = 0
  /\ upstreamFetches = 0
  /\ responsesSent = 0

InitLookup ==
  /\ pName = Undefined
  /\ pOutput = <<>>
  /\ pDone = FALSE

NoUpload == UploadError("pending")

InitUpload ==
  /\ upFile = File("", 0, 0, 0, "ok")
  /\ upOptions = DEFAULT_OPTIONS
  /\ upResult = NoUpload
  /\ upRead = FALSE

InitHistory ==
  /\ scanHistory = <<>>
  /\ user = ""
  /\ intaken = {}

(***************************************************************************)
(* seedDiseases (disease_fallback): one emptiness read, then one setDoc    *)
(* per entry of COMMON_DISEASES, each awaited; any rejection ends the run  *)
(* in the catch block.                                                     *)
(***************************************************************************)
\* seedDiseases() is called: getDocs is issued
SeedStart(s) ==
  /\ seedPc[s] = "idle"
  /\ seedPc' = [seedPc EXCEPT ![s] = "read"]
  /\ UNCHANGED <<seedIdx, seedRuns, sawEmpty, storeFailed>>
  /\ UNCHANGED <<scanVars, storeVars, adminPc, requestVars, unitVars>>

\* getDocs resolves: snapshot.empty decides whether the loop runs
SeedRead(s) ==
  /\ seedPc[s] = "read"
  /\ sawEmpty' = [sawEmpty EXCEPT ![s] = (DOMAIN diseases = {})]
  /\ IF DOMAIN diseases = {}
       THEN /\ seedPc' = [seedPc EXCEPT ![s] = "write"]
            /\ seedIdx' = [seedIdx EXCEPT ![s] = 1]
            /\ UNCHANGED seedRuns
       ELSE /\ seedPc' = [seedPc EXCEPT ![s] = "idle"]
            /\ seedRuns' = [seedRuns EXCEPT ![s] = IF @ < MaxSeedRuns THEN @ + 1 ELSE @]
            /\ UNCHANGED seedIdx
  /\ UNCHANGED storeFailed
  /\ UNCHANGED <<scanVars, storeVars, adminPc, requestVars, unitVars>>

\* a variant that stores each document under a per-writer identifier
SeedWrite_perWriterId(s) ==
  /\ seedPc[s] = "write"
  /\ LET disease == COMMON_DISEASES[seedIdx[s]]
     IN diseases' = setDoc(diseases,
                           seedDocId(disease["name"].s) \o "-" \o ToString(s),
                           disease)
  /\ IF seedIdx[s] = NumCommon
       THEN /\ seedPc' = [seedPc EXCEPT ![s] = "idle"]
            /\ seedRuns' = [seedRuns EXCEPT ![s] = IF @ < MaxSeedRuns THEN @ + 1 ELSE @]
            /\ UNCHANGED seedIdx
       ELSE /\ seedIdx' = [seedIdx EXCEPT ![s] = @ + 1]
            /\ UNCHANGED <<seedPc, seedRuns>>
  /\ UNCHANGED <<sawEmpty, storeFailed, products>>
  /\ UNCHANGED <<scanVars, adminPc, requestVars, unitVars>>

\* the identifiers of the loop's documents, entry by entry
seedDocIds ==
  [i \in 1..NumCommon |-> seedDocId(COMMON_DISEASES[i]["name"].s)]

\* the awaited setDoc of the loop takes effect; after the last one the run
\* is over
SeedWrite(s) ==
  /\ seedPc[s] = "write"
  /\ LET disease == COMMON_DISEASES[seedIdx[s]]
     IN diseases' = setDoc(diseases, seedDocIds[seedIdx[s]], disease)
  /\ IF seedIdx[s] = NumCommon
       THEN /\ seedPc' = [seedPc EXCEPT ![s] = "idle"]
            /\ seedRuns' = [seedRuns EXCEPT ![s] = IF @ < MaxSeedRuns THEN @ + 1 ELSE @]
            /\ UNCHANGED seedIdx
       ELSE /\ seedIdx' = [seedIdx EXCEPT ![s] = @ + 1]
            /\ UNCHANGED <<seedPc, seedRuns>>
  /\ UNCHANGED <<sawEmpty, storeFailed, products>>
  /\ UNCHANGED <<scanVars, adminPc, requestVars, unitVars>>

\* getDocs or setDoc rejects (offline, permission denied): the catch block
\* logs and the run is over
SeedFail(s) ==
  /\ seedPc[s] \in {"read", "write"}
  /\ seedPc' = [seedPc EXCEPT ![s] = "idle"]
  /\ seedRuns' = [seedRuns EXCEPT ![s] = IF @ < MaxSeedRuns THEN @ + 1 ELSE @]
  /\ storeFailed' = TRUE
  /\ UNCHANGED <<seedIdx, sawEmpty>>
  /\ UNCHANGED <<scanVars, storeVars, adminPc, requestVars, unitVars>>

SeedStep ==
  \E s \in Sessions : SeedStart(s) \/ SeedRead(s) \/ SeedWrite(s) \/ SeedFail(s)

\* the run that the mount effect of the scan view started
MountSeedStep == SeedRead(1) \/ SeedWrite(1) \/ SeedFail(1)

\* seedDiseases alone, from an empty collection
InitSeedOnly ==
  /\ InitScan /\ InitStore /\ InitSeed /\ InitValidator
  /\ InitRequest /\ InitLookup /\ InitUpload /\ InitHistory
  /\ adminPc = "off"

NextSeed == SeedStep

SpecSeed == InitSeedOnly /\ [][NextSeed]_vars

(***************************************************************************)
(* The validator applied to one input.                                     *)
(***************************************************************************)
Validate ==
  /\ vOutput = "pending"
  /\ vOutput' = validateAnalysisResult(vInput)
  /\ UNCHANGED <<vInput, scanVars, storeVars, seedVars, adminPc, requestVars,
                 lookupVars, uploadVars, historyVars>>

InitValidate ==
  /\ InitScan /\ InitStore /\ InitSeed
  /\ InitRequest /\ InitLookup /\ InitUpload /\ InitHistory
  /\ adminPc = "off"
  /\ vInput \in ValidatorInputs
  /\ vOutput = "pending"

NextValidate == Validate

SpecValidate == InitValidate /\ [][NextValidate]_vars

(***************************************************************************)
(* The seed script (seedProductsAndDiseases): a products batch, then a     *)
(* diseases batch; a rejected commit ends the script.                      *)
(***************************************************************************)
\* the products batch: row i of the CSV is stored as product_i
productDocs(rows) ==
  [id \in {"product_" \o ToString(i) : i \in 1..Len(rows)} |->
     rows[CHOOSE i \in 1..Len(rows) : id = "product_" \o ToString(i)]]

AdminCommitProducts ==
  /\ adminPc = "products"
  /\ products' = productDocs(CsvRows)
  /\ adminPc' = "diseases"
  /\ UNCHANGED <<diseases, scanVars, seedVars, requestVars, unitVars>>

AdminCommitDiseases ==
  /\ adminPc = "diseases"
  /\ diseases' = commitDiseases(diseases, adminDiseases, DOMAIN adminDiseases)
  /\ adminPc' = "done"
  /\ UNCHANGED <<products, scanVars, seedVars, requestVars, unitVars>>

AdminCommitFail ==
  /\ adminPc \in {"products", "diseases"}
  /\ adminPc' = "failed"
  /\ UNCHANGED <<storeVars, scanVars, seedVars, requestVars, unitVars>>

(***************************************************************************)
(* Product lookup (products lib and loadProducts of Scan.tsx).             *)
(***************************************************************************)
ProductLimit == 10

Take(seq, n) == IF Len(seq) <= n THEN seq ELSE SubSeq(seq, 1, n)

\* a variant whose query has no limit
fetchProductsForDisease_noLimit(diseaseName, readOk) ==
  IF ~readOk \/ diseaseName.t # "string" THEN <<>>
  ELSE LET hits == {id \in DOMAIN products :
                      \E i \in 1..Len(products[id].targetPests) :
                        products[id].targetPests[i] = diseaseName.s}
           ids == SortedIds(hits)
       IN [i \in 1..Len(ids) |->
             [id |-> ids[i], targetPests |-> products[ids[i]].targetPests]]

\* query(products, where("targetPests", "array-contains", name), limit(10));
\* a rejected read, or a name that is not a valid query value, gives []
fetchProductsForDisease(diseaseName, readOk) ==
  IF ~readOk \/ diseaseName.t # "string" THEN <<>>
  ELSE LET hits == {id \in DOMAIN products :
                      \E i \in 1..Len(products[id].targetPests) :
                        products[id].targetPests[i] = diseaseName.s}
           ids == Take(SortedIds(hits), ProductLimit)
       IN [i \in 1..Len(ids) |->
             [id |-> ids[i], targetPests |-> products[ids[i]].targetPests]]

\* fetchProductsForDisease resolves inside loadProducts
LoadProductsResolved(i, readOk) ==
  /\ i \in 1..Len(productLookups)
  /\ recommendedProducts' = fetchProductsForDisease(productLookups[i], readOk)
  /\ isProductsLoading' = FALSE
  /\ productLookups' =
       [j \in 1..(Len(productLookups) - 1) |->
          IF j < i THEN productLookups[j] ELSE productLookups[j + 1]]
  /\ UNCHANGED <<selectedImage, isAnalyzing, showFallback, progress, result,
                 fallbackDiseases, analyzePc, progressInterval, requestImage,
                 lastResponse, resultOrigin, pickedDisease, analyses>>
  /\ UNCHANGED <<storeVars, seedVars, adminPc, requestVars, unitVars>>

(***************************************************************************)
(* Scan.tsx handlers.                                                      *)
(***************************************************************************)
\* handleFileSelect after processImageUpload succeeded with the image img
handleFileSelect(img) ==
  /\ selectedImage' = img
  /\ result' = JsNull
  /\ resultOrigin' = "none"
  /\ pickedDisease' = EmptyDoc
  /\ UNCHANGED <<isAnalyzing, showFallback, progress, fallbackDiseases,
                 recommendedProducts, isProductsLoading, analyzePc,
                 progressInterval, requestImage, productLookups, lastResponse,
                 analyses>>
  /\ UNCHANGED <<storeVars, seedVars, adminPc, requestVars, unitVars>>

handleRemoveImage ==
  /\ selectedImage # ""
  /\ selectedImage' = ""
  /\ result' = JsNull
  /\ resultOrigin' = "none"
  /\ pickedDisease' = EmptyDoc
  /\ UNCHANGED <<isAnalyzing, showFallback, progress, fallbackDiseases,
                 recommendedProducts, isProductsLoading, analyzePc,
                 progressInterval, requestImage, productLookups, lastResponse,
                 analyses>>
  /\ UNCHANGED <<storeVars, seedVars, adminPc, requestVars, unitVars>>

\* a variant whose button stays enabled while an analysis is running
handleAnalyze_unguarded ==
  /\ selectedImage # ""
  /\ analyses < MaxAnalyses
  /\ isAnalyzing' = TRUE
  /\ showFallback' = FALSE
  /\ progress' = 0
  /\ progressInterval' = TRUE
  /\ analyzePc' = "awaitAnalyze"
  /\ requestImage' = selectedImage
  /\ analyses' = analyses + 1
  /\ UNCHANGED <<selectedImage, result, fallbackDiseases, recommendedProducts,
                 isProductsLoading, productLookups, lastResponse, resultOrigin,
                 pickedDisease>>
  /\ UNCHANGED <<storeVars, seedVars, adminPc, requestVars, unitVars>>

\* handleAnalyze up to its first await; the button is disabled while
\* !selectedImage || isAnalyzing
handleAnalyze ==
  /\ selectedImage # ""
  /\ ~isAnalyzing
  /\ analyses < MaxAnalyses
  /\ isAnalyzing' = TRUE
  /\ showFallback' = FALSE
  /\ progress' = 0
  /\ progressInterval' = TRUE
  /\ analyzePc' = "awaitAnalyze"
  /\ requestImage' = selectedImage
  /\ analyses' = analyses + 1
  /\ UNCHANGED <<selectedImage, result, fallbackDiseases, recommendedProducts,
                 isProductsLoading, productLookups, lastResponse, resultOrigin,
                 pickedDisease>>
  /\ UNCHANGED <<storeVars, seedVars, adminPc, requestVars, unitVars>>

\* a variant of the timer callback that counts up to 100
progressTick_to100 ==
  /\ progressInterval
  /\ progress' = IF progress >= 100 THEN 100 ELSE progress + 10
  /\ UNCHANGED <<selectedImage, isAnalyzing, showFallback, result,
                 fallbackDiseases, recommendedProducts, isProductsLoading,
                 analyzePc, progressInterval, requestImage, productLookups,
                 lastResponse, resultOrigin, pickedDisease, analyses>>
  /\ UNCHANGED <<storeVars, seedVars, adminPc, requestVars, unitVars>>

\* the setInterval callback
progressTick ==
  /\ progressInterval
  /\ progress' = IF progress >= 90 THEN 90 ELSE progress + 10
  /\ UNCHANGED <<selectedImage, isAnalyzing, showFallback, result,
                 fallbackDiseases, recommendedProducts, isProductsLoading,
                 analyzePc, progressInterval, requestImage, productLookups,
                 lastResponse, resultOrigin, pickedDisease, analyses>>
  /\ UNCHANGED <<storeVars, seedVars, adminPc, requestVars, unitVars>>

\* handleAnalyze after analyzeCropImage returned this response: on success
\* the result is stored, loadProducts is started and the finally block runs;
\* otherwise the catch block issues getAllDiseases
analyzeReturned(response) ==
  /\ analyzePc = "awaitAnalyze"
  /\ lastResponse' = Outcome(response)
  /\ progressInterval' = FALSE
  /\ IF response.success /\ Truthy(response.data)
       THEN /\ result' = response.data
            /\ resultOrigin' = "auto"
            /\ pickedDisease' = EmptyDoc
            /\ isProductsLoading' = TRUE
            /\ productLookups' =
                 Append(productLookups, response.data.o.diseaseName)
            /\ isAnalyzing' = FALSE
            /\ progress' = 0
            /\ analyzePc' = "idle"
       ELSE /\ progress' = 100
            /\ analyzePc' = "awaitDiseases"
            /\ UNCHANGED <<result, resultOrigin, pickedDisease,
                           isProductsLoading, productLookups, isAnalyzing>>
  /\ UNCHANGED <<selectedImage, showFallback, fallbackDiseases,
                 recommendedProducts, requestImage, analyses>>
  /\ UNCHANGED <<storeVars, seedVars, adminPc, unitVars>>

\* analyzeCropImage resolves, the whole request taken as one step
analyzeResolved(env) ==
  /\ analyzeReturned(analyzeCropImage(requestImage, env))
  /\ UNCHANGED requestVars

\* getAllDiseases of disease_fallback: the collection as read, [] when the
\* read is rejected
getAllDiseases(readOk) == IF readOk THEN snapshotDocs(diseases) ELSE <<>>

\* a variant in which a rejected read reaches the inner catch block of
\* handleAnalyze, which shows a toast only
getAllDiseasesResolved_rejecting(readOk) ==
  /\ analyzePc = "awaitDiseases"
  /\ IF readOk
       THEN /\ fallbackDiseases' = getAllDiseases(readOk)
            /\ showFallback' = TRUE
       ELSE UNCHANGED <<fallbackDiseases, showFallback>>
  /\ isAnalyzing' = FALSE
  /\ progress' = 0
  /\ analyzePc' = "idle"
  /\ UNCHANGED <<selectedImage, result, recommendedProducts, isProductsLoading,
                 progressInterval, requestImage, productLookups, lastResponse,
                 resultOrigin, pickedDisease, analyses>>
  /\ UNCHANGED <<storeVars, seedVars, adminPc, requestVars, unitVars>>

\* getAllDiseases resolves inside the catch block of handleAnalyze; the
\* finally block follows
getAllDiseasesResolved(readOk) ==
  /\ analyzePc = "awaitDiseases"
  /\ fallbackDiseases' = getAllDiseases(readOk)
  /\ showFallback' = TRUE
  /\ isAnalyzing' = FALSE
  /\ progress' = 0
  /\ analyzePc' = "idle"
  /\ UNCHANGED <<selectedImage, result, recommendedProducts, isProductsLoading,
                 progressInterval, requestImage, productLookups, lastResponse,
                 resultOrigin, pickedDisease, analyses>>
  /\ UNCHANGED <<storeVars, seedVars, adminPc, requestVars, unitVars>>

\* a click on the i-th candidate of the fallback card
selectFallbackDisease(i) ==
  /\ showFallback
  /\ i \in 1..Len(fallbackDiseases)
  /\ result' = manualResult(fallbackDiseases[i])
  /\ showFallback' = FALSE
  /\ resultOrigin' = "manual"
  /\ pickedDisease' = fallbackDiseases[i]
  /\ UNCHANGED <<selectedImage, isAnalyzing, progress, fallbackDiseases,
                 recommendedProducts, isProductsLoading, analyzePc,
                 progressInterval, requestImage, productLookups, lastResponse,
                 analyses>>
  /\ UNCHANGED <<storeVars, seedVars, adminPc, requestVars, unitVars>>

\* the scan view is mounted (its effect has called seedDiseases) and the
\* seed script may be run against the same store
Init ==
  /\ InitScan /\ InitStore /\ InitValidator
  /\ InitRequest /\ InitLookup /\ InitUpload /\ InitHistory
  /\ seedPc = [s \in Sessions |-> IF s = 1 THEN "read" ELSE "idle"]
  /\ seedIdx = [s \in Sessions |-> 1]
  /\ seedRuns = [s \in Sessions |-> 0]
  /\ sawEmpty = [s \in Sessions |-> FALSE]
  /\ storeFailed = FALSE
  /\ adminPc = "products"

Next ==
  \/ \E img \in Images : handleFileSelect(img)
  \/ handleRemoveImage
  \/ handleAnalyze
  \/ progressTick
  \/ \E env \in Envs : analyzeResolved(env)
  \/ \E readOk \in BOOLEAN : getAllDiseasesResolved(readOk)
  \/ \E i \in 1..(NumCommon + Cardinality(DOMAIN adminDiseases)) :
       selectFallbackDisease(i)
  \/ \E i \in 1..MaxAnalyses, readOk \in BOOLEAN : LoadProductsResolved(i, readOk)
  \/ MountSeedStep
  \/ AdminCommitProducts
  \/ AdminCommitDiseases
  \/ AdminCommitFail

Spec == Init /\ [][Next]_vars

(***************************************************************************)
(* Properties.                                                             *)
(***************************************************************************)
\* the schema of an AnalysisResult, stated field by field
SchemaOK(j) ==
  /\ j.k = "object"
  /\ \A f \in FieldNames : j.o[f].t # "absent"
  /\ j.o.diseaseName.t = "string"
  /\ j.o.confidence.t = "number"
  /\ j.o.confidence.n \in 0..100
  /\ j.o.cropType.t = "string"
  /\ j.o.severity \in {Str("Mild"), Str("Moderate"), Str("Severe")}
  /\ j.o.symptoms.t = "array" /\ j.o.symptoms.a # <<>>
  /\ j.o.treatment.t = "string" /\ j.o.treatment.s # ""
  /\ j.o.prevention.t = "array" /\ j.o.prevention.a # <<>>

\* the five baseline documents under their name-derived identifiers
BaselineIds ==
  <<"early-blight", "late-blight", "powdery-mildew", "leaf-rust",
    "bacterial-wilt">>

BaselineCollection ==
  [id \in {BaselineIds[i] : i \in 1..5} |->
     COMMON_DISEASES[CHOOSE i \in 1..5 : BaselineIds[i] = id]]

\* the candidate list holds every baseline disease
ListsBaseline(list) ==
  \A i \in 1..NumCommon :
    \E j \in 1..Len(list) : list[j]["name"] = COMMON_DISEASES[i]["name"]

\* C1: a displayed result is either a model output that passed the schema
\* validation or a manual fallback selection; a 200 response whose body
\* fails the schema is never stored as the displayed result.
C1_DisplayedResultValidated ==
  result # JsNull =>
    \/ resultOrigin = "manual"
    \/ resultOrigin = "auto" /\ SchemaOK(result)

\* C2: when an analyze action ends, either a result is displayed or the
\* fallback is offered with at least one selectable candidate.
C2_ActionableResult ==
  [][(analyzePc # "idle" /\ analyzePc' = "idle") =>
       \/ result' # JsNull
       \/ showFallback' /\ Len(fallbackDiseases') >= 1]_vars

\* C3: a completed analysis request has exactly one of two outcomes: on
\* success (a response that passes the schema) its result is displayed and
\* the fallback UI is not shown; on any error, schema failure included, its
\* output is not displayed and the fallback path is taken, which ends with
\* the fallback UI shown; the fallback UI appears only after a failed
\* request.
C3_ExactlyOneOutcome ==
  [][/\ (analyzePc = "awaitAnalyze" /\ analyzePc' # "awaitAnalyze") =>
          IF lastResponse'.success /\ SchemaOK(lastResponse'.data)
            THEN result' = lastResponse'.data /\ ~showFallback'
                 /\ analyzePc' = "idle"
            ELSE result' = result /\ analyzePc' = "awaitDiseases"
     /\ (analyzePc = "awaitDiseases" /\ analyzePc' # "awaitDiseases") =>
          showFallback'
     /\ (~showFallback /\ showFallback') =>
          /\ analyzePc = "awaitDiseases"
          /\ ~(lastResponse.success /\ SchemaOK(lastResponse.data))]_vars

MaxCandidates == 5

\* C4: whenever the fallback UI is shown, its candidate list has at most
\* five entries.
C4_AtMostFiveCandidates ==
  showFallback => Len(fallbackDiseases) <= MaxCandidates

\* C5: if the reference collection is empty when the fallback read is made,
\* the collection is seeded first, so the candidate list shown holds the
\* five baseline diseases.
C5_SeededBeforeShown ==
  [][(analyzePc = "awaitDiseases" /\ analyzePc' = "idle"
      /\ DOMAIN diseases = {}) =>
       showFallback' /\ ListsBaseline(fallbackDiseases')]_vars

\* C6: a manual selection displays diseaseName = candidate.name,
\* confidence = 0, cropType = "Manual Selection" and the candidate's
\* severity, symptoms, treatment and prevention unchanged, and dismisses
\* the fallback UI; only automatic results carry a non-zero confidence.
C6_ManualShape ==
  /\ resultOrigin = "manual" =>
       /\ result.k = "object"
       /\ result.o.diseaseName = Prop(pickedDisease, "name")
       /\ result.o.confidence = Num(0)
       /\ result.o.cropType = Str("Manual Selection")
       /\ result.o.severity = Prop(pickedDisease, "severity")
       /\ result.o.symptoms = Prop(pickedDisease, "symptoms")
       /\ result.o.treatment = Prop(pickedDisease, "treatment")
       /\ result.o.prevention = Prop(pickedDisease, "prevention")
  /\ (result # JsNull /\ result.o.confidence # Num(0)) => resultOrigin = "auto"

C6_ManualSelection ==
  /\ []C6_ManualShape
  /\ [][(resultOrigin' = "manual"
         /\ <<result, resultOrigin, pickedDisease>>'
              # <<result, resultOrigin, pickedDisease>>) =>
          ~showFallback']_vars

\* a baseline candidate has been picked and is displayed
C6_Witness ==
  /\ resultOrigin = "manual"
  /\ ~showFallback
  /\ pickedDisease["name"] = Str("Late Blight")
  /\ result.o.severity = Str("Severe")
  /\ result.o.confidence = Num(0)

\* C7: every result of a manual selection satisfies the schema of a
\* validated automatic result, whichever seeding path wrote the candidate.
C7_ManualResultValid ==
  resultOrigin = "manual" => SchemaOK(result)

\* C8: seedDiseases run twice in sequence on an initially empty collection
\* leaves exactly the five baseline documents under their name-derived
\* identifiers, the same after the second run as after the first, and the
\* collection never holds more than five.
C8_SeedIdempotent ==
  /\ Cardinality(DOMAIN diseases) <= NumCommon
  /\ \A s \in Sessions :
       (/\ seedRuns[s] >= 1
        /\ \A t \in Sessions \ {s} : seedRuns[t] = 0 /\ seedPc[t] = "idle"
        /\ ~storeFailed) =>
         diseases = BaselineCollection

\* one session has finished two runs, alone and without a store failure
C8_Witness ==
  /\ seedRuns[1] = 2 /\ seedPc[1] = "idle" /\ ~sawEmpty[1]
  /\ seedRuns[2] = 0 /\ seedPc[2] = "idle"
  /\ ~storeFailed
  /\ Cardinality(DOMAIN diseases) = NumCommon

\* C9: when two or more sessions have run seedDiseases on an initially
\* empty collection, in any interleaving, and all have finished, the
\* collection holds exactly the five baseline documents, one per
\* identifier.
C9_ConcurrentSeed ==
  (/\ Cardinality({s \in Sessions : seedRuns[s] >= 1}) >= 2
   /\ \A s \in Sessions : seedPc[s] = "idle"
   /\ ~storeFailed) =>
     /\ DOMAIN diseases = {BaselineIds[i] : i \in 1..5}
     /\ \A i \in 1..NumCommon : diseases[BaselineIds[i]] = COMMON_DISEASES[i]

\* two sessions both found the collection empty, both wrote, both finished
C9_Witness ==
  /\ \A s \in {1, 2} : seedRuns[s] = 1 /\ sawEmpty[s] /\ seedPc[s] = "idle"
  /\ ~storeFailed

\* C10: the validator accepts exactly the objects that satisfy the whole
\* schema (confidence 0 and 100 included, -1 and 101 not), and rejects an
\* object that lacks a required field with a message naming a missing
\* field.
C10_ValidatorAllOrNothing ==
  vOutput # "pending" =>
    /\ (vOutput = NoError) <=> SchemaOK(vInput)
    /\ (vInput.k = "object" /\ \E f \in FieldNames : vInput.o[f] = Absent) =>
         \E f \in FieldNames :
           vInput.o[f] = Absent /\ vOutput = "Missing required field: " \o f

\* a full object with confidence at the upper boundary was accepted
C10_Witness ==
  /\ vOutput = NoError
  /\ vInput.k = "object"
  /\ vInput.o.confidence = Num(100)
  /\ vInput.o.severity = Str("Severe")

(***************************************************************************)
(* The validator's checks as a numbered list: check 1 is object-ness,      *)
(* checks 2..8 the presence of the seven fields, checks 9..15 the value of *)
(* each field.                                                             *)
(***************************************************************************)
C11_Messages ==
  <<"Result is not an object",
    "Missing required field: diseaseName",
    "Missing required field: confidence",
    "Missing required field: cropType",
    "Missing required field: severity",
    "Missing required field: symptoms",
    "Missing required field: treatment",
    "Missing required field: prevention",
    "diseaseName must be a string",
    "confidence must be a number between 0 and 100",
    "cropType must be a string",
    "severity must be \"Mild\", \"Moderate\", or \"Severe\"",
    "symptoms must be a non-empty array",
    "treatment must be a non-empty string",
    "prevention must be a non-empty array">>

\* whether the input fails the check with this message, taken on its own
C11_Fails(msg, j) ==
  CASE msg = "Result is not an object" -> j.k # "object"
    [] msg = "Missing required field: diseaseName" -> j.o.diseaseName = Absent
    [] msg = "Missing required field: confidence" -> j.o.confidence = Absent
    [] msg = "Missing required field: cropType" -> j.o.cropType = Absent
    [] msg = "Missing required field: severity" -> j.o.severity = Absent
    [] msg = "Missing required field: symptoms" -> j.o.symptoms = Absent
    [] msg = "Missing required field: treatment" -> j.o.treatment = Absent
    [] msg = "Missing required field: prevention" -> j.o.prevention = Absent
    [] msg = "diseaseName must be a string" -> j.o.diseaseName.t # "string"
    [] msg = "confidence must be a number between 0 and 100" ->
         ~(j.o.confidence.t = "number" /\ j.o.confidence.n \in 0..100)
    [] msg = "cropType must be a string" -> j.o.cropType.t # "string"
    [] msg = "severity must be \"Mild\", \"Moderate\", or \"Severe\"" ->
         j.o.severity \notin {Str("Mild"), Str("Moderate"), Str("Severe")}
    [] msg = "symptoms must be a non-empty array" ->
         ~(j.o.symptoms.t = "array" /\ j.o.symptoms.a # <<>>)
    [] msg = "treatment must be a non-empty string" ->
         ~(j.o.treatment.t = "string" /\ j.o.treatment.s # "")
    [] msg = "prevention must be a non-empty array" ->
         ~(j.o.prevention.t = "array" /\ j.o.prevention.a # <<>>)

C11_Failing(j) ==
  {i \in 1..Len(C11_Messages) : C11_Fails(C11_Messages[i], j)}

\* C11: the validator returns the message of the first check, in the order
\* object-ness, presence of the seven fields, then the seven value checks,
\* that the input fails (null when it fails none); every presence check
\* comes before every value check.
C11_FirstFailingCheck ==
  vOutput # "pending" =>
    IF C11_Failing(vInput) = {} THEN vOutput = NoError
    ELSE \E i \in C11_Failing(vInput) :
           /\ \A k \in C11_Failing(vInput) : i <= k
           /\ vOutput = C11_Messages[i]

\* an input without prevention whose confidence and severity are wrong too
C11_Witness ==
  /\ vOutput = "Missing required field: prevention"
  /\ C11_Fails("confidence must be a number between 0 and 100", vInput)
  /\ C11_Fails("severity must be \"Mild\", \"Moderate\", or \"Severe\"", vInput)

(***************************************************************************)
(* One analysis request, step by step: analyzeCropImage issues its fetch,  *)
(* the server answers on its own or after its fetch of the inference       *)
(* service, analyzeCropImage reads the response.                           *)
(***************************************************************************)
\* a variant that reaches the inference service before looking at the key
callsUpstream_beforeKeyCheck(imageBase64, apiKey) ==
  Len(imageBase64) > 0 /\ StartsWith(imageBase64, "data:image/")

\* the handler gets as far as its fetch of the inference service: the three
\* early returns come first
callsUpstream(imageBase64, apiKey) ==
  /\ Len(imageBase64) > 0
  /\ StartsWith(imageBase64, "data:image/")
  /\ Len(apiKey) > 0

\* analyzeCropImage(imageBase64) is called: without an image it returns at
\* once, otherwise it issues fetch('/api/analyze-crop')
sendRequest(imageBase64, env) ==
  /\ rqPc = "idle"
  /\ rqFrom' = "client"
  /\ rqImage' = imageBase64
  /\ rqEnv' = env
  /\ rqServer' = NoServerResponse
  /\ IF Len(imageBase64) = 0
       THEN /\ rqClient' = analyzeCropImage(imageBase64, env)
            /\ rqPc' = "done"
            /\ UNCHANGED clientFetches
       ELSE /\ rqClient' = Failure("", "")
            /\ rqPc' = "posted"
            /\ clientFetches' = clientFetches + 1
  /\ UNCHANGED <<upstreamFetches, responsesSent>>
  /\ UNCHANGED <<scanVars, storeVars, seedVars, adminPc, unitVars>>

\* some other HTTP client posts to /api/analyze-crop
DirectPost(imageBase64, env) ==
  /\ rqPc = "idle"
  /\ env.reach # "networkError"
  /\ rqFrom' = "direct"
  /\ rqImage' = imageBase64
  /\ rqEnv' = env
  /\ rqServer' = NoServerResponse
  /\ rqPc' = "posted"
  /\ UNCHANGED <<rqClient, clientFetches, upstreamFetches, responsesSent>>
  /\ UNCHANGED <<scanVars, storeVars, seedVars, adminPc, unitVars>>

\* the POST reaches the server: express.json refuses an oversized body, the
\* handler answers by an early return, or it issues its fetch of the
\* inference service
ServerReceive ==
  /\ rqPc = "posted"
  /\ rqEnv.reach # "networkError"
  /\ IF rqEnv.reach = "handler" /\ callsUpstream(rqImage, rqEnv.apiKey)
       THEN /\ upstreamFetches' = upstreamFetches + 1
            /\ rqPc' = "upstream"
            /\ UNCHANGED <<rqServer, responsesSent>>
       ELSE /\ rqServer' = LocalEndpoint(rqImage, rqEnv)
            /\ responsesSent' = responsesSent + 1
            /\ rqPc' = "responded"
            /\ UNCHANGED upstreamFetches
  /\ UNCHANGED <<rqFrom, rqImage, rqEnv, rqClient, clientFetches>>
  /\ UNCHANGED <<scanVars, storeVars, seedVars, adminPc, unitVars>>

\* the fetch of the inference service settles and the handler answers
UpstreamResolved ==
  /\ rqPc = "upstream"
  /\ rqServer' = analyzeCropHandler(rqImage, rqEnv.apiKey, rqEnv.upstream)
  /\ responsesSent' = responsesSent + 1
  /\ rqPc' = "responded"
  /\ UNCHANGED <<rqFrom, rqImage, rqEnv, rqClient, clientFetches,
                 upstreamFetches>>
  /\ UNCHANGED <<scanVars, storeVars, seedVars, adminPc, unitVars>>

\* a variant that posts once more after a 5xx response
ClientReceive_retry ==
  /\ rqFrom = "client"
  /\ \/ rqPc = "responded"
     \/ rqPc = "posted" /\ rqEnv.reach = "networkError"
  /\ IF rqPc = "responded" /\ rqServer.status >= 500
          /\ clientFetches <= analyses
       THEN /\ rqPc' = "posted"
            /\ clientFetches' = clientFetches + 1
            /\ UNCHANGED rqClient
       ELSE /\ rqClient' = IF rqPc = "responded"
                             THEN readResponse(rqServer)
                             ELSE analyzeCropImage(rqImage, rqEnv)
            /\ rqPc' = "done"
            /\ UNCHANGED clientFetches
  /\ UNCHANGED <<rqFrom, rqImage, rqEnv, rqServer, upstreamFetches,
                 responsesSent>>
  /\ UNCHANGED <<scanVars, storeVars, seedVars, adminPc, unitVars>>

\* the fetch of analyzeCropImage settles, with the server's response or with
\* a rejection, and analyzeCropImage returns
ClientReceive ==
  /\ rqFrom = "client"
  /\ \/ rqPc = "responded"
     \/ rqPc = "posted" /\ rqEnv.reach = "networkError"
  /\ rqClient' = IF rqPc = "responded" THEN readResponse(rqServer)
                                       ELSE analyzeCropImage(rqImage, rqEnv)
  /\ rqPc' = "done"
  /\ UNCHANGED <<rqFrom, rqImage, rqEnv, rqServer, clientFetches,
                 upstreamFetches, responsesSent>>
  /\ UNCHANGED <<scanVars, storeVars, seedVars, adminPc, unitVars>>

\* images a caller may pass: none, text that is no data URL, a data URL of
\* another media type, and the encoded images of image intake
RequestImages ==
  {"", "AAAA", "data:text/plain;base64,AAAA"} \cup Images

InitRequestOnly ==
  /\ InitScan /\ InitStore /\ InitSeed /\ InitValidator
  /\ InitRequest /\ InitLookup /\ InitUpload /\ InitHistory
  /\ adminPc = "off"

NextRequest ==
  \/ \E imageBase64 \in RequestImages, env \in Envs :
       sendRequest(imageBase64, env)
  \/ \E imageBase64 \in RequestImages, env \in Envs :
       DirectPost(imageBase64, env)
  \/ ServerReceive
  \/ UpstreamResolved
  \/ ClientReceive

SpecRequest == InitRequestOnly /\ [][NextRequest]_vars

\* which of the four failure conditions a request meets ("other": none)
C12_Condition(imageBase64, env) ==
  IF env.reach # "handler" \/ ~StartsWith(imageBase64, "data:image/")
    THEN "other"
  ELSE IF env.apiKey = "" THEN "missing credential"
  ELSE IF env.upstream.kind = "httpError" THEN "non-success status"
  ELSE IF env.upstream.kind = "ok" /\ env.upstream.content = NoContent
    THEN "empty content"
  ELSE IF env.upstream.kind = "ok" /\ env.upstream.content = Malformed
    THEN "malformed JSON"
  ELSE "other"

C12_Conditions ==
  {"missing credential", "non-success status", "empty content",
   "malformed JSON"}

\* C12: a request that meets one of the four failure conditions (missing
\* credential, non-success status of the inference service, empty content,
\* malformed JSON) is answered with a non-success status and a reason that
\* no request meeting another of the four conditions gets, and
\* analyzeCropImage returns a failure carrying exactly the server's reason.
C12_DistinctReasons ==
  LET c == C12_Condition(rqImage, rqEnv)
  IN (c \in C12_Conditions /\ rqPc \in {"responded", "done"}) =>
       /\ rqServer.status \notin 200..299
       /\ rqServer.error # ""
       /\ \A env \in Envs :
            C12_Condition(rqImage, env) \in C12_Conditions \ {c} =>
              LocalEndpoint(rqImage, env).error # rqServer.error
       /\ rqPc = "done" =>
            /\ ~rqClient.success
            /\ rqClient.error = rqServer.error

\* analyzeCropImage has returned for a request whose content was not JSON
C12_Witness ==
  /\ rqPc = "done"
  /\ C12_Condition(rqImage, rqEnv) = "malformed JSON"
  /\ rqClient.error = "Failed to parse API response"

\* C13: for an image that is empty or does not start with "data:image/",
\* analyzeCropImage issues no fetch of the local endpoint, the handler
\* issues no fetch of the inference service, and the request fails.
C13_RejectedBeforeAnyNetworkCall ==
  (rqFrom # "none"
   /\ (Len(rqImage) = 0 \/ ~StartsWith(rqImage, "data:image/"))) =>
    /\ rqFrom = "client" => clientFetches = 0
    /\ upstreamFetches = 0
    /\ rqPc = "done" => ~rqClient.success

\* C14: when the credential is absent, a POST with a well-formed image never
\* gets to the fetch of the inference service, and its one response has a
\* non-success status and a body with the generic error string and nothing
\* else.
C14_MissingCredential ==
  (rqEnv.reach = "handler" /\ StartsWith(rqImage, "data:image/")
   /\ rqEnv.apiKey = "") =>
    /\ upstreamFetches = 0
    /\ rqPc # "upstream"
    /\ rqPc \in {"responded", "done"} =>
         /\ responsesSent = 1
         /\ rqServer.status \notin 200..299
         /\ rqServer.bodyIsJson
         /\ rqServer.error = "Server configuration error. Please contact support."
         /\ rqServer.details = ""
         /\ rqServer.json = JsNull

\* the server has answered a well-formed POST without having a credential
C14_Witness ==
  /\ rqPc = "responded"
  /\ rqFrom = "direct"
  /\ StartsWith(rqImage, "data:image/")
  /\ rqEnv.reach = "handler"
  /\ rqEnv.apiKey = ""
  /\ rqServer.status = 500

\* the inference service answered with content that is JSON text
C15_UpstreamGaveJson ==
  /\ rqEnv.reach = "handler"
  /\ callsUpstream(rqImage, rqEnv.apiKey)
  /\ rqEnv.upstream.kind = "ok"
  /\ rqEnv.upstream.content.c = "json"

\* C15: a POST gets exactly one response; status 200 goes with the parsed
\* content as body and only with an inference call that succeeded with
\* content that is JSON; every other response has a non-200 status and a
\* JSON body with a non-empty error string.
C15_OneResponsePerPost ==
  /\ responsesSent <= 1
  /\ rqPc \in {"responded", "done"} /\ rqServer # NoServerResponse =>
       /\ responsesSent = 1
       /\ IF rqServer.status = 200
            THEN /\ C15_UpstreamGaveJson
                 /\ rqServer.json = rqEnv.upstream.content.v
                 /\ rqServer.error = ""
            ELSE /\ rqServer.bodyIsJson
                 /\ rqServer.error # ""
                 /\ rqServer.json = JsNull
       /\ ~C15_UpstreamGaveJson => rqServer.status # 200

(***************************************************************************)
(* The scan view with its analysis request taken step by step, on a store  *)
(* that no seeding run is writing to.                                      *)
(***************************************************************************)
\* what a request of the scan view can meet: also an answer that names a
\* disease no product targets
FlowEnvs ==
  Envs \cup
  { Env("handler", "sk-key",
        Upstream("ok", 200, "",
                 JsonText(Obj([ValidFields EXCEPT
                                 !.diseaseName = Str("Healthy")])))) }

\* handleAnalyze calls analyzeCropImage(selectedImage)
callAnalyzeCropImage(env) ==
  /\ analyzePc = "awaitAnalyze"
  /\ sendRequest(requestImage, env)

\* the awaited analyzeCropImage returns into handleAnalyze
analyzeDelivered ==
  /\ rqPc = "done"
  /\ analyzeReturned(rqClient)
  /\ rqPc' = "idle"
  /\ UNCHANGED <<rqFrom, rqImage, rqEnv, rqServer, rqClient, clientFetches,
                 upstreamFetches, responsesSent>>

InitFlow ==
  /\ InitScan /\ InitSeed /\ InitValidator
  /\ InitRequest /\ InitLookup /\ InitUpload /\ InitHistory
  /\ diseases \in {EmptyCollection, BaselineCollection}
  /\ products = productDocs(CsvRows)
  /\ adminPc = "off"

NextFlow ==
  \/ \E img \in Images : handleFileSelect(img)
  \/ handleRemoveImage
  \/ handleAnalyze
  \/ progressTick
  \/ \E env \in FlowEnvs : callAnalyzeCropImage(env)
  \/ ServerReceive
  \/ UpstreamResolved
  \/ ClientReceive
  \/ analyzeDelivered
  \/ \E readOk \in BOOLEAN : getAllDiseasesResolved(readOk)
  \/ \E i \in 1..NumCommon : selectFallbackDisease(i)
  \/ \E i \in 1..MaxAnalyses, readOk \in BOOLEAN : LoadProductsResolved(i, readOk)

SpecFlow == InitFlow /\ [][NextFlow]_vars

\* C16: there is no automatic retry: analyzeCropImage has issued at most one
\* fetch of the local endpoint per analyze action, the handler at most one
\* fetch of the inference service and one response per request it received,
\* and a result appears only when the request of an analyze action returns
\* or when a fallback candidate is picked.
C16_NoRetry ==
  /\ [](/\ clientFetches <= analyses
        /\ upstreamFetches <= clientFetches
        /\ responsesSent <= clientFetches)
  /\ [][(result' # result /\ result' # JsNull) =>
          \/ resultOrigin' = "manual" /\ showFallback
          \/ analyzePc = "awaitAnalyze" /\ rqPc = "done" /\ rqClient.success]_vars

\* an analysis has failed after one request to each service and nothing is
\* displayed
C16_Witness ==
  /\ analyses = 1
  /\ analyzePc = "idle"
  /\ showFallback
  /\ ~lastResponse.success
  /\ clientFetches = 1
  /\ upstreamFetches = 1
  /\ result = JsNull

\* C17 as claimed: while an analysis is in flight and an image is selected,
\* another analyze click starts handleAnalyze again.
C17_SecondClickStartsRequest ==
  (analyzePc # "idle" /\ selectedImage # "" /\ analyses < MaxAnalyses) =>
    ENABLED handleAnalyze

\* C17: while an analysis is in flight the analyzing flag is set and the
\* analyze button, disabled by it, starts nothing; the one request of the
\* session belongs to the analysis in flight.
C17_OneAnalysisInFlight ==
  /\ analyzePc # "idle" => isAnalyzing
  /\ isAnalyzing => ~ENABLED handleAnalyze
  /\ rqPc # "idle" => analyzePc = "awaitAnalyze"

\* a request is on its way to the inference service while an image is
\* selected and the user may click again
C17_Witness ==
  /\ rqPc = "upstream"
  /\ analyzePc = "awaitAnalyze"
  /\ selectedImage # ""
  /\ analyses < MaxAnalyses

\* disease names a lookup may be asked for
C18_Names == {Str("Early Blight"), Str("Healthy"), Undefined}

Range(seq) == {seq[i] : i \in 1..Len(seq)}

C18_Targets(name) ==
  {id \in DOMAIN products :
     \E i \in 1..Len(products[id].targetPests) :
       Str(products[id].targetPests[i]) = name}

\* C18: a rejected read gives getAllDiseases and fetchProductsForDisease an
\* empty list, as does a lookup that matches nothing; whatever the read
\* gives, the reference read ends the analysis with the candidate list
\* shown and the product read ends the loading state without touching the
\* result; and the result is displayed in the step that starts its lookup.
C18_ReadsNeverBlock ==
  /\ [](/\ getAllDiseases(FALSE) = <<>>
        /\ \A name \in C18_Names :
             /\ fetchProductsForDisease(name, FALSE) = <<>>
             /\ C18_Targets(name) = {} =>
                  fetchProductsForDisease(name, TRUE) = <<>>)
  /\ [][/\ analyzePc = "awaitDiseases" /\ analyzePc' # analyzePc =>
             /\ analyzePc' = "idle"
             /\ ~isAnalyzing'
             /\ showFallback'
             /\ fallbackDiseases' \in {<<>>, snapshotDocs(diseases)}
        /\ Len(productLookups') < Len(productLookups) =>
             /\ ~isProductsLoading'
             /\ result' = result
             /\ analyzePc' = analyzePc
             /\ \E name \in Range(productLookups) :
                  recommendedProducts' \in
                    {<<>>, fetchProductsForDisease(name, TRUE)}
        /\ result' # result /\ resultOrigin' = "auto" =>
             /\ Len(productLookups') = Len(productLookups) + 1
             /\ isProductsLoading'
             /\ analyzePc' = "idle"
             /\ ~isAnalyzing']_vars

\* a result is displayed while its product lookup has not answered
C18_Witness ==
  /\ result # JsNull
  /\ resultOrigin = "auto"
  /\ Len(productLookups) > 0
  /\ isProductsLoading
  /\ analyzePc = "idle"

(***************************************************************************)
(* fetchProductsForDisease applied to one name on one products collection. *)
(***************************************************************************)
\* products in the collection
MaxProducts == 12

\* the targetPests of the i-th product of a collection filled in one way
TargetPests(filling, i) ==
  CASE filling = "same" -> <<"Early Blight">>
    [] filling = "other" -> <<"Aphids">>
    [] filling = "case" -> <<"EARLY BLIGHT", "early blight">>
    [] filling = "mixed" ->
         CASE i % 4 = 0 -> <<"Early Blight", "Aphids">>
           [] i % 4 = 1 -> <<"Late Blight", "Early Blight">>
           [] i % 4 = 2 -> <<"Early blight">>
           [] i % 4 = 3 -> <<>>

ProductCollections ==
  { productDocs([i \in 1..n |->
                   Row("Fungicide", TargetPests(filling, i), <<"Tomato">>)]) :
      n \in 0..MaxProducts, filling \in {"same", "other", "case", "mixed"} }

\* names a lookup is asked for (undefined: the result had no diseaseName)
LookupNames ==
  {Str("Early Blight"), Str("early blight"), Str("Aphids"), Undefined}

Lookup(readOk) ==
  /\ ~pDone
  /\ pOutput' = fetchProductsForDisease(pName, readOk)
  /\ pDone' = TRUE
  /\ UNCHANGED <<pName, scanVars, storeVars, seedVars, adminPc, requestVars,
                 validatorVars, uploadVars, historyVars>>

InitLookupOnly ==
  /\ InitScan /\ InitSeed /\ InitValidator /\ InitRequest /\ InitUpload /\ InitHistory
  /\ adminPc = "off"
  /\ diseases = EmptyCollection
  /\ products \in ProductCollections
  /\ pName \in LookupNames
  /\ pOutput = <<>>
  /\ pDone = FALSE

NextLookup == \E readOk \in BOOLEAN : Lookup(readOk)

SpecLookup == InitLookupOnly /\ [][NextLookup]_vars

\* C19: whatever the name and the collection, a lookup returns at most 10
\* products, each a different document of the collection whose targetPests
\* list contains the name exactly as given.
C19_AtMostTenExactMatches ==
  pDone =>
    /\ Len(pOutput) <= 10
    /\ \A i \in 1..Len(pOutput) :
         /\ pOutput[i].id \in DOMAIN products
         /\ pOutput[i].targetPests = products[pOutput[i].id].targetPests
         /\ \E k \in 1..Len(pOutput[i].targetPests) :
              Str(pOutput[i].targetPests[k]) = pName
         /\ \A j \in 1..Len(pOutput) : pOutput[j].id = pOutput[i].id => j = i

\* more than ten products target the name and ten came back
C19_Witness ==
  /\ pDone
  /\ Len(pOutput) = 10
  /\ Cardinality({id \in DOMAIN products :
                    \E k \in 1..Len(products[id].targetPests) :
                      Str(products[id].targetPests[k]) = pName}) > 10

(***************************************************************************)
(* processImageUpload applied to one file under one set of options.        *)
(***************************************************************************)
Upload ==
  /\ upResult = NoUpload
  /\ upResult' = processImageUpload(upFile, upOptions)
  /\ upRead' = callsLoadAndResizeImage(upFile, upOptions)
  /\ UNCHANGED <<upFile, upOptions, scanVars, storeVars, seedVars, adminPc,
                 requestVars, validatorVars, lookupVars, historyVars>>

InitUploadOnly ==
  /\ InitScan /\ InitStore /\ InitSeed /\ InitValidator
  /\ InitRequest /\ InitLookup /\ InitHistory
  /\ adminPc = "off"
  /\ upFile \in UploadFiles
  /\ upOptions \in UploadOptions
  /\ upResult = NoUpload
  /\ upRead = FALSE

NextUpload == Upload

SpecUpload == InitUploadOnly /\ [][NextUpload]_vars

\* C20: the picture that image intake returns is no larger than the maxima;
\* it has the input's size when that is within the maxima, and otherwise
\* the size (floor(w * r), floor(h * r)) for r the smaller of maxWidth / w
\* and maxHeight / h.
C20_ResizedDimensions ==
  upResult.success =>
    LET w == upFile.width
        h == upFile.height
        maxW == upOptions.maxWidth
        maxH == upOptions.maxHeight
    IN /\ upResult.width <= maxW
       /\ upResult.height <= maxH
       /\ IF w <= maxW /\ h <= maxH
            THEN upResult.width = w /\ upResult.height = h
          ELSE IF maxW * h <= maxH * w
            THEN /\ upResult.width = (w * maxW) \div w
                 /\ upResult.height = (h * maxW) \div w
          ELSE /\ upResult.width = (w * maxH) \div h
               /\ upResult.height = (h * maxH) \div h

\* C21: image intake rejects in a fixed order and before any decoding. A
\* file whose type is not accepted fails with the invalid-type error, too
\* large or not, and is not read; a file of accepted type whose size exceeds
\* the limit fails with the size error and is not read; a file of accepted
\* type and of at most the limit (the limit itself included) is read, and
\* the outcome is a success when it decodes and otherwise a failure result
\* that carries the decoding error.
C21_Accepted ==
  \E i \in 1..Len(upOptions.acceptedFormats) :
    upOptions.acceptedFormats[i] = upFile.type

C21_Limit == upOptions.maxSizeInMB * 1024 * 1024

C21_RejectsInOrderBeforeDecoding ==
  upResult # NoUpload =>
    /\ ~C21_Accepted =>
         /\ ~upResult.success
         /\ StartsWith(upResult.error, "Invalid file type")
         /\ ~upRead
    /\ C21_Accepted /\ upFile.size > C21_Limit =>
         /\ ~upResult.success
         /\ StartsWith(upResult.error, "File size (")
         /\ ~upRead
    /\ C21_Accepted /\ upFile.size <= C21_Limit =>
         /\ upRead
         /\ upResult.success <=> upFile.reading = "ok"
         /\ upFile.reading # "ok" =>
              StartsWith(upResult.error, "Failed to process image: ")

\* a file that is both of a type outside the accepted set and too large has
\* been turned down for its type
C21_Witness ==
  /\ upResult # NoUpload
  /\ upFile.type = "image/gif"
  /\ upFile.size > C21_Limit
  /\ StartsWith(upResult.error, "Invalid file type")

\* C30: when the input picture, the maximum width and the maximum height
\* are all at least 1, the picture image intake returns has a width and a
\* height of at least 1.
C30_NoZeroDimension ==
  (/\ upResult.success
   /\ upFile.width >= 1 /\ upFile.height >= 1
   /\ upOptions.maxWidth >= 1 /\ upOptions.maxHeight >= 1)
    => upResult.width >= 1 /\ upResult.height >= 1

(***************************************************************************)
(* The scan view with both ways of choosing an image and the save button.  *)
(***************************************************************************)
\* saves per user and behaviour
MaxSaves == 2

\* files the file input may hand to handleFileSelect
HistoryFiles ==
  { File("image/png", 1024, 640, 480, "ok"),
    File("image/png", 1024, 640, 480, "undecodable"),
    File("image/png", 11 * BytesPerMB, 640, 480, "ok"),
    File("image/gif", 1024, 640, 480, "ok") }

\* what getScreenshot of the webcam returns (screenshotFormat "image/jpeg")
CameraFrames == {"data:image/jpeg;base64,BBBB"}

\* an answer that passes and the requester being unreachable
HistoryEnvs ==
  { Env("handler", "sk-key", Upstream("ok", 200, "", JsonText(Obj(ValidFields)))),
    Env("networkError", "sk-key", Upstream("ok", 200, "", NoContent)) }

\* a document another user saved earlier
EarlierEntry ==
  [userId |-> "uid0", image |-> "data:image/png;base64,AAAA",
   cropType |-> Str("Maize"), diseaseName |-> Str("Common Rust"),
   confidence |-> Num(70)]

\* handleFileSelect for a chosen file: processImageUpload with the default
\* options, then the image is selected and the result cleared, or a toast
handleFileSelectEvent(file) ==
  LET uploadResult == processImageUpload(file, DEFAULT_OPTIONS)
  IN /\ intaken' = IF uploadResult.success
                     THEN intaken \cup {uploadResult.data} ELSE intaken
     /\ IF uploadResult.success /\ uploadResult.data # ""
          THEN /\ selectedImage' = uploadResult.data
               /\ result' = JsNull
               /\ resultOrigin' = "none"
               /\ pickedDisease' = EmptyDoc
          ELSE UNCHANGED <<selectedImage, result, resultOrigin, pickedDisease>>
     /\ UNCHANGED <<isAnalyzing, showFallback, progress, fallbackDiseases,
                    recommendedProducts, isProductsLoading, analyzePc,
                    progressInterval, requestImage, productLookups,
                    lastResponse, analyses>>
     /\ UNCHANGED <<storeVars, seedVars, adminPc, requestVars, validatorVars,
                    lookupVars, uploadVars, scanHistory, user>>

\* onCapture of CameraCapture: the screenshot becomes the selected image
handleCameraCapture(imageData) ==
  /\ selectedImage' = imageData
  /\ result' = JsNull
  /\ resultOrigin' = "none"
  /\ pickedDisease' = EmptyDoc
  /\ UNCHANGED <<isAnalyzing, showFallback, progress, fallbackDiseases,
                 recommendedProducts, isProductsLoading, analyzePc,
                 progressInterval, requestImage, productLookups, lastResponse,
                 analyses>>
  /\ UNCHANGED <<storeVars, seedVars, adminPc, requestVars, unitVars>>

\* the document handleSaveToHistory adds (its two time stamps left out)
historyEntry ==
  [userId |-> user, image |-> selectedImage, cropType |-> result.o.cropType,
   diseaseName |-> result.o.diseaseName, confidence |-> result.o.confidence]

OwnEntries == {i \in 1..Len(scanHistory) : scanHistory[i].userId = user}

\* a variant that does not look at the user
handleSaveToHistory_signedOut(writeOk) ==
  /\ result # JsNull /\ selectedImage # ""
  /\ Cardinality(OwnEntries) < MaxSaves
  /\ scanHistory' = IF writeOk THEN Append(scanHistory, historyEntry)
                    ELSE scanHistory
  /\ UNCHANGED <<scanVars, storeVars, seedVars, adminPc, requestVars,
                 validatorVars, lookupVars, uploadVars, user, intaken>>

\* handleSaveToHistory: returns at once unless result, selectedImage and
\* user are all set; addDoc appends a document, a rejected write shows a
\* toast only
handleSaveToHistory(writeOk) ==
  /\ result # JsNull /\ selectedImage # "" /\ user # ""
  /\ Cardinality(OwnEntries) < MaxSaves
  /\ scanHistory' = IF writeOk THEN Append(scanHistory, historyEntry)
                    ELSE scanHistory
  /\ UNCHANGED <<scanVars, storeVars, seedVars, adminPc, requestVars,
                 validatorVars, lookupVars, uploadVars, user, intaken>>

\* the reference collection is seeded, somebody may be signed in and the
\* history may hold an earlier document
InitHistoryOnly ==
  /\ InitScan /\ InitSeed /\ InitValidator
  /\ InitRequest /\ InitLookup /\ InitUpload
  /\ diseases = BaselineCollection
  /\ products = productDocs(CsvRows)
  /\ adminPc = "off"
  /\ scanHistory \in {<<>>, <<EarlierEntry>>}
  /\ user \in {"", "uid1"}
  /\ intaken = {}

NextHistory ==
  \/ \E file \in HistoryFiles : handleFileSelectEvent(file)
  \/ \E imageData \in CameraFrames : handleCameraCapture(imageData)
  \/ handleRemoveImage
  \/ handleAnalyze
  \/ \E env \in HistoryEnvs : analyzeResolved(env)
  \/ \E readOk \in BOOLEAN : getAllDiseasesResolved(readOk)
  \/ \E i \in 1..NumCommon : selectFallbackDisease(i)
  \/ \E writeOk \in BOOLEAN : handleSaveToHistory(writeOk)

SpecHistory == InitHistoryOnly /\ [][NextHistory]_vars

\* C22: scan_history changes only by a save: the step leaves the scan
\* view's state as it is (it is no analysis, fallback pick, image selection
\* or removal), a result, a selected image and a signed-in user are present,
\* and the collection afterwards is the one before with one document added
\* that holds that user, image and result.
C22_OnlySaveAppends ==
  [][scanHistory' # scanHistory =>
       /\ UNCHANGED scanVars
       /\ result # JsNull /\ selectedImage # "" /\ user # ""
       /\ Len(scanHistory') = Len(scanHistory) + 1
       /\ SubSeq(scanHistory', 1, Len(scanHistory)) = scanHistory
       /\ LET entry == scanHistory'[Len(scanHistory')]
          IN /\ entry.userId = user
             /\ entry.image = selectedImage
             /\ entry.diseaseName = result.o.diseaseName]_vars

\* a signed-in user's save has been added behind an earlier document
C22_Witness ==
  /\ Len(scanHistory) = 2
  /\ scanHistory[1] = EarlierEntry
  /\ scanHistory[2].userId = "uid1"
  /\ scanHistory[2].image = selectedImage

\* C23: the selected image of the scan view, from a file or from the
\* camera, is always a data URL that image intake returned.
C23_SelectedImagePassedIntake ==
  selectedImage # "" => selectedImage \in intaken

\* C24: a displayed automatic result belongs to the selected image: the
\* image of the request it answers is the one that is selected now.
C24_ResultOfSelectedImage ==
  (result # JsNull /\ resultOrigin = "auto") => requestImage = selectedImage

\* C25: the fallback candidate list is never shown while a result is
\* displayed.
C25_ResultAndFallbackExclusive == ~(showFallback /\ result # JsNull)

\* C26: once no product lookup is pending, the recommended products shown
\* with a result are what the lookup gives for that result's diseaseName
\* (the matching products, or none when the read was rejected).
C26_ProductsOfDisplayedResult ==
  (result # JsNull /\ productLookups = <<>>) =>
    \E readOk \in BOOLEAN :
      recommendedProducts = fetchProductsForDisease(result.o.diseaseName, readOk)

(***************************************************************************)
(* The scan view from its mount on: the mount effect has called            *)
(* seedDiseases without awaiting it, so the run's store operations         *)
(* interleave with the handlers; the effect runs again when user changes.  *)
(***************************************************************************)
InitMount ==
  /\ InitScan /\ InitStore /\ InitValidator
  /\ InitRequest /\ InitLookup /\ InitUpload /\ InitHistory
  /\ seedPc = [s \in Sessions |-> IF s = 1 THEN "read" ELSE "idle"]
  /\ seedIdx = [s \in Sessions |-> 1]
  /\ seedRuns = [s \in Sessions |-> 0]
  /\ sawEmpty = [s \in Sessions |-> FALSE]
  /\ storeFailed = FALSE
  /\ adminPc = "off"

NextMount ==
  \/ \E img \in Images : handleFileSelect(img)
  \/ handleAnalyze
  \/ \E env \in HistoryEnvs : analyzeResolved(env)
  \/ \E readOk \in BOOLEAN : getAllDiseasesResolved(readOk)
  \/ \E i \in 1..NumCommon : selectFallbackDisease(i)
  \/ \E i \in 1..MaxAnalyses, readOk \in BOOLEAN : LoadProductsResolved(i, readOk)
  \/ SeedStart(1)
  \/ MountSeedStep

SpecMount == InitMount /\ [][NextMount]_vars

\* C27: what getAllDiseases returned holds none of the five baseline
\* diseases or all of them.
C27_BaselineRead ==
  {i \in 1..NumCommon :
     \E j \in 1..Len(fallbackDiseases) :
       fallbackDiseases[j]["name"] = COMMON_DISEASES[i]["name"]}

C27_ReadsSeeNoneOrAll == Cardinality(C27_BaselineRead) \in {0, NumCommon}

(***************************************************************************)
(* seedDiseases with store operations that are answered and callers that   *)
(* call again; a rejection may happen but need not.                        *)
(***************************************************************************)
SpecSeedFair ==
  /\ SpecSeed
  /\ \A s \in Sessions :
       /\ WF_vars(SeedStart(s))
       /\ WF_vars(SeedRead(s))
       /\ WF_vars(SeedWrite(s))

\* C28: once a run has been ended by a rejected write with some but not
\* all of the five baseline documents written, the collection eventually
\* holds all five.
C28_Interrupted ==
  /\ storeFailed
  /\ DOMAIN diseases # {}
  /\ DOMAIN diseases # {BaselineIds[i] : i \in 1..5}
  /\ \A s \in Sessions : seedPc[s] = "idle"

C28_EventuallyComplete == C28_Interrupted ~> (diseases = BaselineCollection)

(***************************************************************************)
(* The analyze action on a seeded store, with a requester and a store that *)
(* answer.                                                                 *)
(***************************************************************************)

InitAnalyze ==
  /\ InitScan /\ InitSeed /\ InitValidator
  /\ InitRequest /\ InitLookup /\ InitUpload /\ InitHistory
  /\ diseases = BaselineCollection
  /\ products = productDocs(CsvRows)
  /\ adminPc = "off"

NextAnalyze ==
  \/ \E img \in Images : handleFileSelect(img)
  \/ handleRemoveImage
  \/ handleAnalyze
  \/ progressTick
  \/ \E env \in HistoryEnvs : analyzeResolved(env)
  \/ \E readOk \in BOOLEAN : getAllDiseasesResolved(readOk)
  \/ \E i \in 1..NumCommon : selectFallbackDisease(i)
  \/ \E i \in 1..MaxAnalyses, readOk \in BOOLEAN : LoadProductsResolved(i, readOk)

SpecAnalyze == InitAnalyze /\ [][NextAnalyze]_vars

SpecAnalyzeFair ==
  /\ SpecAnalyze
  /\ WF_vars(\E env \in HistoryEnvs : analyzeResolved(env))
  /\ WF_vars(\E readOk \in BOOLEAN : getAllDiseasesResolved(readOk))

\* C29: every analyze action that has started ends; whenever none is
\* running the progress timer is cancelled, the analyzing flag is false and
\* progress is 0; progress is always within 0..100, and a timer tick never
\* leaves it above 90.
C29_Ended ==
  /\ analyzePc = "idle"
  /\ ~progressInterval
  /\ ~isAnalyzing
  /\ progress = 0

C29_AnalyzeTerminates ==
  /\ [](analyzePc # "idle" => <>C29_Ended)
  /\ [](analyzePc = "idle" => C29_Ended)
  /\ [](progress \in 0..100)
  /\ [][(progress' # progress /\ analyzePc' = analyzePc) => progress' <= 90]_vars

\* an analysis whose fallback read was rejected has ended
C29_Witness ==
  /\ C29_Ended
  /\ analyses >= 1
  /\ ~lastResponse.success
  /\ showFallback /\ fallbackDiseases = <<>>

====
